---- MODULE Spec2Model ----
(***************************************************************************)
(* A model of the qBittorrent WebUI API client (src/src/index.ts): the     *)
(* request dispatcher callMethod, the session credential authCookie and    *)
(* the operations login, logout and getApplicationVersion.                 *)
(*                                                                         *)
(* Strings are sequences of one-character strings, so that startsWith,     *)
(* trim and JSON.parse are computed, not assumed.  An optional value       *)
(* (authCookie?: string, an optional header) is a sequence of length 0     *)
(* (undefined / header absent) or 1 (the string).                          *)
(***************************************************************************)
EXTENDS Integers, Sequences, FiniteSets, TLC

VARIABLES authCookie, calls, net, invoked, last, root, url, built, add

vars == <<authCookie, calls, net, invoked, last, root, url, built, add>>

----------------------------------------------------------------------------
(* Bounds of the model.                                                    *)

\* operations invoked on the handle in one behaviour
MaxCalls == 3
\* operations in flight at once
MaxInFlight == 2
\* the longest list given to an operation
MaxList == 2

----------------------------------------------------------------------------
(* Strings.                                                                *)

Undefined == <<>>
Some(s) == <<s>>

\* String.prototype.startsWith
StartsWith(s, p) == Len(s) >= Len(p) /\ SubSeq(s, 1, Len(p)) = p

\* the white space String.prototype.trim removes (those of it in the model's alphabet)
WhiteSpace == {" ", "\t", "\n", "\r"}

RECURSIVE TrimStart(_)
TrimStart(s) ==
  IF s # <<>> /\ Head(s) \in WhiteSpace THEN TrimStart(Tail(s)) ELSE s

RECURSIVE TrimEnd(_)
TrimEnd(s) ==
  IF s # <<>> /\ s[Len(s)] \in WhiteSpace THEN TrimEnd(SubSeq(s, 1, Len(s) - 1)) ELSE s

\* String.prototype.trim
Trim(s) == TrimEnd(TrimStart(s))

----------------------------------------------------------------------------
(* JavaScript values and JSON.parse.  A number is represented by its       *)
(* lexeme; \u escapes are outside the texts the model draws.               *)

JSUndefined == [t |-> "undefined"]
JSNull == [t |-> "null"]
JSBool(b) == [t |-> "boolean", bool |-> b]
JSString(s) == [t |-> "string", str |-> s]
JSNumber(lexeme) == [t |-> "number", num |-> lexeme]
JSArray(elems) == [t |-> "array", arr |-> elems]
JSObject(members) == [t |-> "object", obj |-> members]

Digits == {"0", "1", "2", "3", "4", "5", "6", "7", "8", "9"}
JSONWhiteSpace == {" ", "\t", "\n", "\r"}

ParseFail == [ok |-> FALSE, pos |-> 0, val |-> JSUndefined]
ParseOk(p, v) == [ok |-> TRUE, pos |-> p, val |-> v]

RECURSIVE SkipWs(_, _)
SkipWs(s, i) ==
  IF i <= Len(s) /\ s[i] \in JSONWhiteSpace THEN SkipWs(s, i + 1) ELSE i

RECURSIVE ScanDigits(_, _)
ScanDigits(s, i) ==
  IF i <= Len(s) /\ s[i] \in Digits THEN ScanDigits(s, i + 1) ELSE i

ParseLiteral(s, i, word, v) ==
  IF i + Len(word) - 1 <= Len(s) /\ SubSeq(s, i, i + Len(word) - 1) = word
  THEN ParseOk(i + Len(word), v)
  ELSE ParseFail

\* -? (0 | [1-9][0-9]*) (. [0-9]+)? ([eE] [+-]? [0-9]+)?
ParseNumber(s, i) ==
  LET j == IF s[i] = "-" THEN i + 1 ELSE i
      hasInt == j <= Len(s) /\ s[j] \in Digits
      intEnd == IF s[j] = "0" THEN j + 1 ELSE ScanDigits(s, j)
      hasDot == intEnd <= Len(s) /\ s[intEnd] = "."
      fracEnd == IF hasDot THEN ScanDigits(s, intEnd + 1) ELSE intEnd
      fracOk == hasDot => fracEnd > intEnd + 1
      hasExp == fracEnd <= Len(s) /\ s[fracEnd] \in {"e", "E"}
      expStart == IF fracEnd + 1 <= Len(s) /\ s[fracEnd + 1] \in {"+", "-"}
                  THEN fracEnd + 2 ELSE fracEnd + 1
      expEnd == IF hasExp THEN ScanDigits(s, expStart) ELSE fracEnd
      expOk == hasExp => expEnd > expStart
  IN IF ~hasInt THEN ParseFail
     ELSE IF ~fracOk THEN ParseFail
     ELSE IF ~expOk THEN ParseFail
     ELSE ParseOk(expEnd, JSNumber(SubSeq(s, i, expEnd - 1)))

Unescape(c) ==
  CASE c = "n" -> "\n"
    [] c = "t" -> "\t"
    [] c = "r" -> "\r"
    [] OTHER -> c

\* the characters of a string literal from position i up to its closing quote
RECURSIVE ScanString(_, _, _)
ScanString(s, i, acc) ==
  IF i > Len(s) THEN ParseFail
  ELSE IF s[i] = "\"" THEN ParseOk(i + 1, JSString(acc))
  ELSE IF s[i] = "\\"
       THEN IF i + 1 <= Len(s) /\ s[i + 1] \in {"\"", "\\", "/", "n", "t", "r"}
            THEN ScanString(s, i + 2, Append(acc, Unescape(s[i + 1])))
            ELSE ParseFail
  ELSE IF s[i] \in {"\n", "\t", "\r"} THEN ParseFail
  ELSE ScanString(s, i + 1, Append(acc, s[i]))

RECURSIVE ParseValue(_, _)
RECURSIVE ParseElements(_, _, _)
RECURSIVE ParseMembers(_, _, _)

\* the elements of an array, from the position after "[" or ","
ParseElements(s, i, acc) ==
  LET r == ParseValue(s, SkipWs(s, i))
      k == SkipWs(s, r.pos)
  IN IF ~r.ok THEN ParseFail
     ELSE IF k > Len(s) THEN ParseFail
     ELSE IF s[k] = "," THEN ParseElements(s, k + 1, Append(acc, r.val))
     ELSE IF s[k] = "]" THEN ParseOk(k + 1, JSArray(Append(acc, r.val)))
     ELSE ParseFail

\* the members of an object, from the position after "{" or ","
ParseMembers(s, i, acc) ==
  LET q == SkipWs(s, i)
      key == IF q <= Len(s) /\ s[q] = "\"" THEN ScanString(s, q + 1, <<>>) ELSE ParseFail
      c == SkipWs(s, key.pos)
      colon == key.ok /\ c <= Len(s) /\ s[c] = ":"
      r == IF colon THEN ParseValue(s, SkipWs(s, c + 1)) ELSE ParseFail
      k == SkipWs(s, r.pos)
      m == [key |-> key.val.str, value |-> r.val]
  IN IF ~r.ok THEN ParseFail
     ELSE IF k > Len(s) THEN ParseFail
     ELSE IF s[k] = "," THEN ParseMembers(s, k + 1, Append(acc, m))
     ELSE IF s[k] = "}" THEN ParseOk(k + 1, JSObject(Append(acc, m)))
     ELSE ParseFail

ParseValue(s, i) ==
  IF i > Len(s) THEN ParseFail
  ELSE IF s[i] = "n" THEN ParseLiteral(s, i, <<"n", "u", "l", "l">>, JSNull)
  ELSE IF s[i] = "t" THEN ParseLiteral(s, i, <<"t", "r", "u", "e">>, JSBool(TRUE))
  ELSE IF s[i] = "f" THEN ParseLiteral(s, i, <<"f", "a", "l", "s", "e">>, JSBool(FALSE))
  ELSE IF s[i] = "\"" THEN ScanString(s, i + 1, <<>>)
  ELSE IF s[i] = "-" \/ s[i] \in Digits THEN ParseNumber(s, i)
  ELSE IF s[i] = "["
       THEN LET k == SkipWs(s, i + 1)
            IN IF k <= Len(s) /\ s[k] = "]" THEN ParseOk(k + 1, JSArray(<<>>))
               ELSE ParseElements(s, i + 1, <<>>)
  ELSE IF s[i] = "{"
       THEN LET k == SkipWs(s, i + 1)
            IN IF k <= Len(s) /\ s[k] = "}" THEN ParseOk(k + 1, JSObject(<<>>))
               ELSE ParseMembers(s, i + 1, <<>>)
  ELSE ParseFail

\* JSON.parse(text): ok is FALSE where JSON.parse throws a SyntaxError
JSONParse(text) ==
  LET r == ParseValue(text, SkipWs(text, 1))
  IN IF r.ok /\ SkipWs(text, r.pos) = Len(text) + 1
     THEN [ok |-> TRUE, val |-> r.val]
     ELSE [ok |-> FALSE, val |-> JSUndefined]

----------------------------------------------------------------------------
(* What the server and the network may answer.                             *)

\* HTTP statuses: the edges of the success range 200..299 and a refusal
Statuses == {199, 200, 299, 300, 403}

\* as Response.ok, were the check written "status < 400"
ResponseOk_below400(status) == status < 400

\* Response.ok
ResponseOk(status) == status >= 200 /\ status <= 299

\* response texts: empty, plain strings, a version, and JSON of each kind
Texts ==
  { <<>>,
    <<"O", "k", ".">>,
    <<"F", "a", "i", "l", "s", ".">>,
    <<"4", ".", "6", ".", "5">>,
    <<"\"", "4", ".", "6", ".", "5", "\"">>,
    <<"1", "2">>,
    <<"[", "1", ",", "2", "]">>,
    <<"{", "\"", "a", "\"", ":", "t", "r", "u", "e", "}">> }

SIDPrefix == <<"S", "I", "D", "=">>

\* 'SID=abc123; Path=/'
CookieSIDabc ==
  <<"S", "I", "D", "=", "a", "b", "c", "1", "2", "3", ";", " ", "P", "a", "t", "h", "=", "/">>
CookieSIDx == <<"S", "I", "D", "=", "x">>
CookieSIDy == <<"S", "I", "D", "=", "y", ";", " ", "H", "t", "t", "p", "O", "n", "l", "y">>
CookieLang == <<"l", "a", "n", "g", "=", "e", "n">>
CookieXSID == <<"X", "S", "I", "D", "=", "q">>
CookieLowerSid == <<"s", "i", "d", "=", "q">>

\* the values Headers.getSetCookie() may return for a response
SetCookieLists ==
  { <<>>,
    <<CookieSIDabc>>,
    <<CookieLang, CookieSIDabc>>,
    <<CookieSIDx, CookieSIDy>>,
    <<CookieXSID, CookieLowerSid>> }

\* a response as fetch() resolves with it: status and headers, the body unread
Response(status, setCookie) == [status |-> status, setCookie |-> setCookie]

Responses == {Response(status, setCookie) : status \in Statuses, setCookie \in SetCookieLists}

\* the answers drawn where several operations are in flight at once
FewResponses ==
  { Response(200, <<>>),
    Response(200, <<CookieSIDabc>>),
    Response(200, <<CookieSIDx, CookieSIDy>>),
    Response(403, <<>>) }
\* the answers that matter to a login racing other calls
RaceResponses == {Response(200, <<>>), Response(200, <<CookieSIDabc>>)}

FewTexts == {<<"O", "k", ".">>}

\* what a caller may write to the public field authCookie: nothing, the empty
\* string, white space, a cookie with white space around it
FieldValues ==
  { Undefined,
    Some(<<>>),
    Some(<<" ", "\t">>),
    Some(<<" ", "S", "I", "D", "=", "x", " ">>),
    Some(CookieLang) }

----------------------------------------------------------------------------
(* The client.                                                             *)

Ops == {"login", "logout", "getApplicationVersion"}

CallIds == 1..MaxCalls

NoOutcome == [kind |-> "none", code |-> 0, message |-> <<>>, body |-> JSUndefined]
\* a promise fulfilled with value v
Fulfilled(v) == [kind |-> "value", code |-> 0, message |-> <<>>, body |-> v]
\* class RequestError: name 'RequestError', code, message
RequestError(code, message) ==
  [kind |-> "RequestError", code |-> code, message |-> message, body |-> JSUndefined]
\* the error fetch() or Response.text() rejects with when the exchange does not complete
TransportError == [kind |-> "TransportError", code |-> 0, message |-> <<>>, body |-> JSUndefined]

NoRequest == [apiName |-> "", methodName |-> "", method |-> "", cookie |-> Undefined]

\* one invocation of a public operation: its position (pc), the credential it read,
\* the request it passed to fetch, how many times it called fetch, what it got of
\* the response so far, what callMethod produced (result) and what the operation
\* produced (out)
IdleCall ==
  [pc |-> "idle", op |-> "", held |-> Undefined, req |-> NoRequest, nreq |-> 0,
   got |-> "nothing", status |-> 0, setCookie |-> <<>>, text |-> <<>>,
   result |-> NoOutcome, out |-> NoOutcome]

\* what stays of an invocation once its promise has settled
Settled(c) == [IdleCall EXCEPT !.pc = "done", !.nreq = c.nreq]

\* the effect of one step of an invocation: its new state, the credential after the
\* step, and the requests the step passed to fetch
Effect(c, cookie, fetched) == [call |-> c, authCookie |-> cookie, fetched |-> fetched]

\* the name=value pair of a set-cookie value, its attributes dropped
RECURSIVE CookiePair(_)
CookiePair(s) ==
  IF s = <<>> \/ Head(s) = ";" THEN <<>> ELSE <<Head(s)>> \o CookiePair(Tail(s))

\* as callMethod_start, were the Cookie header cut down to the name=value pair
callMethod_start_pairOnly(c, apiName, methodName, optMethod, cur) ==
  LET method == IF optMethod = Undefined THEN "GET" ELSE optMethod[1]
      cookie == IF cur # Undefined /\ Trim(cur[1]) # <<>>
                THEN Some(CookiePair(cur[1])) ELSE Undefined
      req == [apiName |-> apiName, methodName |-> methodName, method |-> method,
              cookie |-> cookie]
  IN Effect([c EXCEPT !.pc = "fetch", !.held = cur, !.req = req, !.nreq = c.nreq + 1],
            cur, <<req>>)

\* as callMethod_start, were the credential compared with '' without trim()
callMethod_start_noTrim(c, apiName, methodName, optMethod, cur) ==
  LET method == IF optMethod = Undefined THEN "GET" ELSE optMethod[1]
      cookie == IF cur # Undefined /\ cur[1] # <<>> THEN Some(cur[1]) ELSE Undefined
      req == [apiName |-> apiName, methodName |-> methodName, method |-> method,
              cookie |-> cookie]
  IN Effect([c EXCEPT !.pc = "fetch", !.held = cur, !.req = req, !.nreq = c.nreq + 1],
            cur, <<req>>)

\* callMethod up to the call of fetch: the verb, the Cookie header, the request
callMethod_start(c, apiName, methodName, optMethod, cur) ==
  LET method == IF optMethod = Undefined THEN "GET" ELSE optMethod[1]
      cookie == IF cur # Undefined /\ Trim(cur[1]) # <<>> THEN Some(cur[1]) ELSE Undefined
      req == [apiName |-> apiName, methodName |-> methodName, method |-> method,
              cookie |-> cookie]
  IN Effect([c EXCEPT !.pc = "fetch", !.held = cur, !.req = req, !.nreq = c.nreq + 1],
            cur, <<req>>)

login_start(c, cur) == callMethod_start(c, "auth", "login", Some("POST"), cur)

logout_start(c, cur) == callMethod_start(c, "auth", "logout", Undefined, cur)

getApplicationVersion_start(c, cur) == callMethod_start(c, "app", "version", Undefined, cur)

\* addNewTorrent up to its first await: with a Stream among the torrents it awaits
\* the stream's end before anything is sent, without one it reaches callMethod
addNewTorrent_start(c, hasStream, cur) ==
  IF hasStream THEN Effect([c EXCEPT !.pc = "stream"], cur, <<>>)
  ELSE callMethod_start(c, "torrents", "add", Some("POST"), cur)

\* addNewTorrent once the stream has ended: the call of callMethod
addNewTorrent_streamEnd(c, cur) == callMethod_start(c, "torrents", "add", Some("POST"), cur)

\* the caller invokes operation op
Start(op, cur) ==
  LET c == [IdleCall EXCEPT !.op = op]
  IN CASE op = "login" -> login_start(c, cur)
       [] op = "logout" -> logout_start(c, cur)
       [] op = "getApplicationVersion" -> getApplicationVersion_start(c, cur)

\* await fetch(...) resumes with a response: its status and headers are known
callMethod_fetchResolved(c, response, cur) ==
  Effect([c EXCEPT !.pc = "text", !.got = "headers", !.status = response.status,
                   !.setCookie = response.setCookie],
         cur, <<>>)

\* as Throw, were the credential dropped when a call fails
Throw_dropsCredential(c, err, cur) ==
  Effect([c EXCEPT !.pc = "done", !.result = err, !.out = err], Undefined, <<>>)

\* an exception leaves callMethod and the operation awaiting it: nothing catches it
Throw(c, err, cur) ==
  Effect([c EXCEPT !.pc = "done", !.result = err, !.out = err], cur, <<>>)

\* as callMethod_fetchRejected, were the rejection caught and wrapped
callMethod_fetchRejected_wrapped(c, cur) == Throw(c, RequestError(0, <<>>), cur)

\* await fetch(...) rejects
callMethod_fetchRejected(c, cur) == Throw(c, TransportError, cur)

\* await response.text() rejects
callMethod_textRejected(c, cur) == Throw(c, TransportError, cur)

\* as FindSID, were the test cookie.includes('SID=')
RECURSIVE FindSID_includes(_)
FindSID_includes(cookies) ==
  IF cookies = <<>> THEN Undefined
  ELSE IF \E k \in 1..Len(Head(cookies)) :
            StartsWith(SubSeq(Head(cookies), k, Len(Head(cookies))), SIDPrefix)
       THEN Some(Head(cookies))
  ELSE FindSID_includes(Tail(cookies))

\* headers.getSetCookie().find(cookie => cookie.startsWith('SID='))
RECURSIVE FindSID(_)
FindSID(cookies) ==
  IF cookies = <<>> THEN Undefined
  ELSE IF StartsWith(Head(cookies), SIDPrefix) THEN Some(Head(cookies))
  ELSE FindSID(Tail(cookies))

\* as login_resume, were a credential stored since this login was sent left alone
login_resume_firstWins(c, cur) ==
  Effect([c EXCEPT !.pc = "done", !.out = Fulfilled(JSUndefined)],
         IF cur # c.held THEN cur ELSE FindSID(c.setCookie), <<>>)

\* as login_resume, were the first set-cookie value stored whatever its name
login_resume_anyCookie(c, cur) ==
  Effect([c EXCEPT !.pc = "done", !.out = Fulfilled(JSUndefined)],
         IF c.setCookie = <<>> THEN Undefined ELSE Some(Head(c.setCookie)), <<>>)

\* as login_resume, were the old credential kept when no cookie is found
login_resume_keepsOld(c, cur) ==
  Effect([c EXCEPT !.pc = "done", !.out = Fulfilled(JSUndefined)],
         IF FindSID(c.setCookie) = Undefined THEN cur ELSE FindSID(c.setCookie), <<>>)

\* login after its await: the assignment to this.authCookie
login_resume(c, cur) ==
  Effect([c EXCEPT !.pc = "done", !.out = Fulfilled(JSUndefined)],
         FindSID(c.setCookie), <<>>)

\* as logout_resume, were the credential cleared
logout_resume_clears(c, cur) ==
  Effect([c EXCEPT !.pc = "done", !.out = Fulfilled(JSUndefined)], Undefined, <<>>)

\* logout after its await: nothing is assigned
logout_resume(c, cur) ==
  Effect([c EXCEPT !.pc = "done", !.out = Fulfilled(JSUndefined)], cur, <<>>)

\* getApplicationVersion after its await: return body
getApplicationVersion_resume(c, cur) ==
  Effect([c EXCEPT !.pc = "done", !.out = Fulfilled(c.result.body)], cur, <<>>)

\* addNewTorrent after its await of callMethod: nothing is returned
addNewTorrent_resume(c, cur) ==
  Effect([c EXCEPT !.pc = "done", !.out = Fulfilled(JSUndefined)], cur, <<>>)

\* callMethod returned { body, headers } to the operation awaiting it
Return(c, body, cur) ==
  LET r == [c EXCEPT !.result = Fulfilled(body)]
  IN CASE c.op = "login" -> Effect([r EXCEPT !.pc = "returned"], cur, <<>>)
       [] c.op = "logout" -> logout_resume(r, cur)
       [] c.op = "getApplicationVersion" -> getApplicationVersion_resume(r, cur)
       [] c.op = "addNewTorrent" -> addNewTorrent_resume(r, cur)

\* as callMethod_textResolved, without the try/catch around JSON.parse
callMethod_textResolved_noCatch(c, text, cur) ==
  LET t == [c EXCEPT !.got = "body", !.text = text]
      parsed == JSONParse(text)
  IN IF ~ResponseOk(c.status) THEN Throw(t, RequestError(c.status, text), cur)
     ELSE IF parsed.ok THEN Return(t, parsed.val, cur)
     ELSE Throw(t, [kind |-> "SyntaxError", code |-> 0, message |-> <<>>,
                    body |-> JSUndefined], cur)

\* as callMethod_textResolved, were a refused request sent once more
callMethod_textResolved_retry(c, text, cur) ==
  LET t == [c EXCEPT !.got = "body", !.text = text]
      parsed == JSONParse(text)
  IN IF ~ResponseOk(c.status) /\ c.nreq < 2
     THEN Effect([c EXCEPT !.pc = "fetch", !.nreq = c.nreq + 1], cur, <<c.req>>)
     ELSE IF ~ResponseOk(c.status) THEN Throw(t, RequestError(c.status, text), cur)
     ELSE IF parsed.ok THEN Return(t, parsed.val, cur)
     ELSE Return(t, JSString(text), cur)

\* as callMethod_textResolved, were a refused request followed by a login request
callMethod_textResolved_reauth(c, text, cur) ==
  LET t == [c EXCEPT !.got = "body", !.text = text]
      parsed == JSONParse(text)
      relogin == [apiName |-> "auth", methodName |-> "login", method |-> "POST",
                  cookie |-> c.req.cookie]
  IN IF ~ResponseOk(c.status)
     THEN Effect(Throw(t, RequestError(c.status, text), cur).call, cur, <<relogin>>)
     ELSE IF parsed.ok THEN Return(t, parsed.val, cur)
     ELSE Return(t, JSString(text), cur)

\* as callMethod_textResolved, were the SID cookie of a refused login stored
callMethod_textResolved_storesOnRefusal(c, text, cur) ==
  LET t == [c EXCEPT !.got = "body", !.text = text]
      parsed == JSONParse(text)
  IN IF ~ResponseOk(c.status)
     THEN Effect(Throw(t, RequestError(c.status, text), cur).call,
                 IF c.op = "login" THEN FindSID(c.setCookie) ELSE cur, <<>>)
     ELSE IF parsed.ok THEN Return(t, parsed.val, cur)
     ELSE Return(t, JSString(text), cur)

\* await response.text() resumes with the text: the status check and the parse
callMethod_textResolved(c, text, cur) ==
  LET t == [c EXCEPT !.got = "body", !.text = text]
      parsed == JSONParse(text)
  IN IF ~ResponseOk(c.status) THEN Throw(t, RequestError(c.status, text), cur)
     ELSE IF parsed.ok THEN Return(t, parsed.val, cur)
     ELSE Return(t, JSString(text), cur)

----------------------------------------------------------------------------
(* URLs.  A URL is the record of its origin (scheme, host, port), its path *)
(* and its query; the roots the model draws are http(s) URLs of the form   *)
(* scheme://host[:port][/path] with no query, fragment or dot segment.     *)

\* the position of the first c in s at or after position from, 0 when there is none
RECURSIVE IndexOf(_, _, _)
IndexOf(s, c, from) ==
  IF from > Len(s) THEN 0 ELSE IF s[from] = c THEN from ELSE IndexOf(s, c, from + 1)

\* the position of the last c in s, 0 when there is none
LastIndexOf(s, c) ==
  LET ks == {k \in 1..Len(s) : s[k] = c}
  IN IF ks = {} THEN 0 ELSE CHOOSE k \in ks : \A j \in ks : j <= k

\* new URL(s) for an absolute URL: an empty path becomes "/"
URLParse(s) ==
  LET colon == IndexOf(s, ":", 1)
      slash == IndexOf(s, "/", colon + 3)
  IN IF slash = 0 THEN [origin |-> s, path |-> <<"/">>, search |-> <<>>]
     ELSE [origin |-> SubSeq(s, 1, slash - 1), path |-> SubSeq(s, slash, Len(s)),
           search |-> <<>>]

\* new URL(ref, base) for a path reference: one that starts with "/" replaces the
\* base's path, any other replaces what follows the last "/" of the base's path
URLResolve(ref, base) ==
  LET b == URLParse(base)
  IN IF ref # <<>> /\ Head(ref) = "/" THEN [b EXCEPT !.path = ref]
     ELSE [b EXCEPT !.path = SubSeq(b.path, 1, LastIndexOf(b.path, "/")) \o ref]

\* URL.prototype.href
Href(u) == u.origin \o u.path \o (IF u.search = <<>> THEN <<>> ELSE <<"?">> \o u.search)

\* the characters the url.search setter percent-encodes (those of the model's alphabet)
SearchEncode(ch) ==
  CASE ch = " " -> <<"%", "2", "0">>
    [] ch = "\"" -> <<"%", "2", "2">>
    [] ch = "#" -> <<"%", "2", "3">>
    [] ch = "<" -> <<"%", "3", "C">>
    [] ch = ">" -> <<"%", "3", "E">>
    [] ch = "'" -> <<"%", "2", "7">>
    [] OTHER -> <<ch>>

RECURSIVE SearchEncodeAll(_)
SearchEncodeAll(s) ==
  IF s = <<>> THEN <<>> ELSE SearchEncode(Head(s)) \o SearchEncodeAll(Tail(s))

\* url.search = query: one leading "?" is dropped, the rest is percent-encoded
SetSearch(u, query) ==
  [u EXCEPT !.search = SearchEncodeAll(IF query # <<>> /\ Head(query) = "?"
                                       THEN Tail(query) ELSE query)]

\* root.replace(/\/$/, ''): one "/" at the end is removed
StripTrailingSlash(s) ==
  IF s # <<>> /\ s[Len(s)] = "/" THEN SubSeq(s, 1, Len(s) - 1) ELSE s

DefaultRoot == <<"h", "t", "t", "p", ":", "/", "/", "l", "o", "c", "a", "l", "h", "o", "s", "t", ":", "8", "0", "8", "0">>

\* as constructor, were the prefix '/api/v2' without its closing slash
constructor_openPrefix(arg) ==
  LET given == IF arg = Undefined THEN DefaultRoot ELSE arg[1]
  IN Href(URLResolve(<<"/", "a", "p", "i", "/", "v", "2">>, StripTrailingSlash(given)))

\* constructor(url = 'http://localhost:8080'):
\* this.url = new URL('/api/v2/', url.replace(/\/$/, '')).href
constructor(arg) ==
  LET given == IF arg = Undefined THEN DefaultRoot ELSE arg[1]
  IN Href(URLResolve(<<"/", "a", "p", "i", "/", "v", "2", "/">>, StripTrailingSlash(given)))

----------------------------------------------------------------------------
(* qs.stringify(query, { arrayFormat: 'repeat' }) and the request callMethod *)
(* passes to fetch.  An object is the sequence of its members in key order. *)

\* the percent-encoding qs applies to keys and values: letters, digits and - . _ ~
\* stay, every other character of the model's alphabet is escaped
PercentEncode(ch) ==
  CASE ch = " " -> <<"%", "2", "0">>
    [] ch = "&" -> <<"%", "2", "6">>
    [] ch = "," -> <<"%", "2", "C">>
    [] ch = "/" -> <<"%", "2", "F">>
    [] ch = ":" -> <<"%", "3", "A">>
    [] ch = "=" -> <<"%", "3", "D">>
    [] ch = "|" -> <<"%", "7", "C">>
    [] OTHER -> <<ch>>

RECURSIVE Encode(_)
Encode(s) == IF s = <<>> THEN <<>> ELSE PercentEncode(Head(s)) \o Encode(Tail(s))

\* String(value) of a primitive
ToStr(v) ==
  CASE v.t = "string" -> v.str
    [] v.t = "number" -> v.num
    [] v.t = "boolean" -> IF v.bool THEN <<"t", "r", "u", "e">> ELSE <<"f", "a", "l", "s", "e">>
    [] v.t = "null" -> <<>>

\* the key=value pairs of one member: none for undefined, one per element of an
\* array (undefined elements left out), one for a primitive
RECURSIVE PairsOf(_, _)
PairsOf(key, v) ==
  CASE v.t = "undefined" -> <<>>
    [] v.t = "array" ->
         IF v.arr = <<>> THEN <<>>
         ELSE PairsOf(key, Head(v.arr)) \o PairsOf(key, JSArray(Tail(v.arr)))
    [] OTHER -> <<Encode(key) \o <<"=">> \o Encode(ToStr(v))>>

\* Array.prototype.join(sep) of an array of strings
RECURSIVE Join(_, _)
Join(list, sep) ==
  IF list = <<>> THEN <<>>
  ELSE IF Len(list) = 1 THEN Head(list)
  ELSE Head(list) \o sep \o Join(Tail(list), sep)

RECURSIVE MemberPairs(_)
MemberPairs(members) ==
  IF members = <<>> THEN <<>>
  ELSE PairsOf(Head(members).key, Head(members).value) \o MemberPairs(Tail(members))

\* as qs_stringify, were arrayFormat 'comma': the elements of an array are joined
\* with a comma under one key
qs_stringify_comma(query) ==
  IF query.t # "object" THEN <<>>
  ELSE Join(MemberPairs([k \in DOMAIN query.obj |->
              IF query.obj[k].value.t = "array" /\ query.obj[k].value.arr # <<>>
              THEN [key |-> query.obj[k].key,
                    value |-> JSString(Join([e \in DOMAIN query.obj[k].value.arr |->
                                               ToStr(query.obj[k].value.arr[e])], <<",">>))]
              ELSE query.obj[k]]), <<"&">>)

\* qs.stringify(query, { arrayFormat: 'repeat' }): '' for anything but an object
qs_stringify(query) ==
  IF query.t # "object" THEN <<>> ELSE Join(MemberPairs(query.obj), <<"&">>)

\* options of callMethod: method, query and body, each possibly left out
CallOptions(method, query, body) == [method |-> method, query |-> query, body |-> body]

NoOptions == CallOptions(Undefined, JSUndefined, Undefined)

\* as callMethod_request, were the verb POST when none is given
callMethod_request_defaultPost(base, apiName, methodName, options) ==
  LET method == IF options.method = Undefined THEN "POST" ELSE options.method[1]
      query == qs_stringify(options.query)
      target == URLResolve(apiName \o <<"/">> \o methodName, base)
      url_ == IF query # <<>> THEN SetSearch(target, query) ELSE target
  IN [apiName |-> apiName, methodName |-> methodName, method |-> method,
      href |-> Href(url_), path |-> url_.path, search |-> url_.search,
      referer |-> URLParse(base).origin, body |-> options.body]

\* callMethod up to the call of fetch: the verb, the URL with its query, the
\* Referer header and the body
callMethod_request(base, apiName, methodName, options) ==
  LET method == IF options.method = Undefined THEN "GET" ELSE options.method[1]
      query == qs_stringify(options.query)
      target == URLResolve(apiName \o <<"/">> \o methodName, base)
      url_ == IF query # <<>> THEN SetSearch(target, query) ELSE target
  IN [apiName |-> apiName, methodName |-> methodName, method |-> method,
      href |-> Href(url_), path |-> url_.path, search |-> url_.search,
      referer |-> URLParse(base).origin, body |-> options.body]

----------------------------------------------------------------------------
(* The requests of the operations.  A form body (URLSearchParams) is the   *)
(* sequence of its fields; a list argument is a JavaScript array of        *)
(* strings, the sentinel 'all' a JavaScript string.                        *)

Field(name, value) == [name |-> name, value |-> value]

\* URLSearchParams.prototype.set: the first field of that name gets the value and
\* the others of that name are removed, or the field is appended
ParamsSet(form, name, value) ==
  LET at == {k \in DOMAIN form : form[k].name = name}
  IN IF at = {} THEN Append(form, Field(name, value))
     ELSE LET first == CHOOSE k \in at : \A j \in at : k <= j
          IN SelectSeq([k \in DOMAIN form |->
                          IF k = first THEN Field(name, value)
                          ELSE IF k \in at THEN Field("", <<>>) ELSE form[k]],
                       LAMBDA f : f.name # "")

\* the value of field name of a form, none when the form has no such field
FieldOf(form, name) ==
  LET at == {k \in DOMAIN form : form[k].name = name}
  IN IF at = {} THEN Undefined
     ELSE Some(form[CHOOSE k \in at : \A j \in at : k <= j].value)

\* what join makes of an element: '' for null and undefined, String(e) otherwise
ElementStr(e) == IF e.t \in {"undefined", "null"} THEN <<>> ELSE ToStr(e)

\* array.join(sep)
ArrayJoin(array, sep) == Join([k \in DOMAIN array.arr |-> ElementStr(array.arr[k])], sep)

\* Array.isArray
IsArray(v) == v.t = "array"

\* Number.prototype.toString of a natural number
RECURSIVE NatStr(_)
NatStr(n) ==
  LET d == <<"0", "1", "2", "3", "4", "5", "6", "7", "8", "9">>[(n % 10) + 1]
  IN IF n < 10 THEN <<d>> ELSE NatStr(n \div 10) \o <<d>>

\* Number.prototype.toString of an integer
NumStr(n) == IF n < 0 THEN <<"-">> \o NatStr(0 - n) ELSE NatStr(n)

\* Boolean.prototype.toString
BoolStr(b) == IF b THEN <<"t", "r", "u", "e">> ELSE <<"f", "a", "l", "s", "e">>

\* as PipeJoin, were the separator a comma
PipeJoin_comma(list) == ArrayJoin(list, <<",">>)

\* list.join('|')
PipeJoin(list) == ArrayJoin(list, <<"|">>)

\* as HashesField, were the argument joined whatever it is: a string is joined
\* character by character
HashesField_joinsAlways(hashes) ==
  IF IsArray(hashes) THEN PipeJoin(hashes)
  ELSE Join([k \in DOMAIN hashes.str |-> <<hashes.str[k]>>], <<"|">>)

\* Array.isArray(hashes) ? hashes.join('|') : hashes
HashesField(hashes) == IF IsArray(hashes) THEN PipeJoin(hashes) ELSE hashes.str

\* callMethod(apiName, methodName, { method: 'POST', body }) with a form body
Post(base, apiName, methodName, form) ==
  callMethod_request(base, apiName, methodName, CallOptions(Some("POST"), JSUndefined, Some(form)))

APINames_app == <<"a", "p", "p">>
APINames_auth == <<"a", "u", "t", "h">>
APINames_torrents == <<"t", "o", "r", "r", "e", "n", "t", "s">>

\* the requests of the operations; a is the record of the arguments

getApplicationVersion_request(base, a) ==
  callMethod_request(base, APINames_app, <<"v", "e", "r", "s", "i", "o", "n">>, NoOptions)

logout_request(base, a) ==
  callMethod_request(base, APINames_auth, <<"l", "o", "g", "o", "u", "t">>, NoOptions)

getTorrentList_request(base, a) ==
  callMethod_request(base, APINames_torrents, <<"i", "n", "f", "o">>,
                     CallOptions(Undefined, a.query, Undefined))

pauseTorrents_request(base, a) ==
  Post(base, APINames_torrents, <<"p", "a", "u", "s", "e">>,
       <<Field("hashes", PipeJoin(a.hashes))>>)

resumeTorrents_request(base, a) ==
  Post(base, APINames_torrents, <<"r", "e", "s", "u", "m", "e">>,
       <<Field("hashes", PipeJoin(a.hashes))>>)

recheckTorrents_request(base, a) ==
  Post(base, APINames_torrents, <<"r", "e", "c", "h", "e", "c", "k">>,
       <<Field("hashes", PipeJoin(a.hashes))>>)

reannounceTorrents_request(base, a) ==
  Post(base, APINames_torrents, <<"r", "e", "a", "n", "n", "o", "u", "n", "c", "e">>,
       <<Field("hashes", PipeJoin(a.hashes))>>)

deleteTorrents_request(base, a) ==
  Post(base, APINames_torrents, <<"d", "e", "l", "e", "t", "e">>,
       <<Field("hashes", HashesField(a.hashes)), Field("deleteFiles", BoolStr(a.flag))>>)

\* as addTrackersToTorrent_request, were the URLs joined with a pipe
addTrackersToTorrent_request_pipe(base, a) ==
  Post(base, APINames_torrents, <<"a", "d", "d", "T", "r", "a", "c", "k", "e", "r", "s">>,
       <<Field("hash", a.text), Field("urls", PipeJoin(a.list))>>)

addTrackersToTorrent_request(base, a) ==
  Post(base, APINames_torrents, <<"a", "d", "d", "T", "r", "a", "c", "k", "e", "r", "s">>,
       <<Field("hash", a.text), Field("urls", ArrayJoin(a.list, <<"\n">>))>>)

removeTrackers_request(base, a) ==
  Post(base, APINames_torrents, <<"r", "e", "m", "o", "v", "e", "T", "r", "a", "c", "k", "e", "r", "s">>,
       <<Field("hash", a.text), Field("urls", ArrayJoin(a.list, <<"\n">>))>>)

addPeers_request(base, a) ==
  Post(base, APINames_torrents, <<"a", "d", "d", "P", "e", "e", "r", "s">>,
       <<Field("hashes", PipeJoin(a.hashes)), Field("peers", PipeJoin(a.list))>>)

increaseTorrentPriority_request(base, a) ==
  Post(base, APINames_torrents, <<"i", "n", "c", "r", "e", "a", "s", "e", "P", "r", "i", "o">>,
       <<Field("hashes", HashesField(a.hashes))>>)

decreaseTorrentPriority_request(base, a) ==
  Post(base, APINames_torrents, <<"d", "e", "c", "r", "e", "a", "s", "e", "P", "r", "i", "o">>,
       <<Field("hashes", HashesField(a.hashes))>>)

maximalTorrentPriority_request(base, a) ==
  Post(base, APINames_torrents, <<"t", "o", "p", "P", "r", "i", "o">>,
       <<Field("hashes", HashesField(a.hashes))>>)

minimalTorrentPriority_request(base, a) ==
  Post(base, APINames_torrents, <<"b", "o", "t", "t", "o", "m", "P", "r", "i", "o">>,
       <<Field("hashes", HashesField(a.hashes))>>)

getTorrentDownloadLimit_request(base, a) ==
  Post(base, APINames_torrents, <<"d", "o", "w", "n", "l", "o", "a", "d", "L", "i", "m", "i", "t">>,
       <<Field("hashes", HashesField(a.hashes))>>)

getTorrentUploadLimit_request(base, a) ==
  Post(base, APINames_torrents, <<"u", "p", "l", "o", "a", "d", "L", "i", "m", "i", "t">>,
       <<Field("hashes", HashesField(a.hashes))>>)

toggleSequentialDownload_request(base, a) ==
  Post(base, APINames_torrents, <<"t", "o", "g", "g", "l", "e", "S", "e", "q", "u", "e", "n", "t", "i", "a", "l", "D", "o", "w", "n", "l", "o", "a", "d">>,
       <<Field("hashes", HashesField(a.hashes))>>)

setFirstLastPiecePriority_request(base, a) ==
  Post(base, APINames_torrents, <<"t", "o", "g", "g", "l", "e", "F", "i", "r", "s", "t", "L", "a", "s", "t", "P", "i", "e", "c", "e", "P", "r", "i", "o">>,
       <<Field("hashes", HashesField(a.hashes))>>)

setTorrentDownloadLimit_request(base, a) ==
  Post(base, APINames_torrents, <<"s", "e", "t", "D", "o", "w", "n", "l", "o", "a", "d", "L", "i", "m", "i", "t">>,
       <<Field("hashes", HashesField(a.hashes)), Field("limit", NumStr(a.num))>>)

setTorrentUploadLimit_request(base, a) ==
  Post(base, APINames_torrents, <<"s", "e", "t", "U", "p", "l", "o", "a", "d", "L", "i", "m", "i", "t">>,
       <<Field("hashes", HashesField(a.hashes)), Field("limit", NumStr(a.num))>>)

\* setTorrentShareLimit: both options are set under the name 'ratioLimit'
setTorrentShareLimit_request(base, a) ==
  LET body0 == <<Field("hashes", HashesField(a.hashes))>>
      body1 == IF a.ratioLimit # Undefined
               THEN ParamsSet(body0, "ratioLimit", NumStr(a.ratioLimit[1])) ELSE body0
      body2 == IF a.seedingTimeLimit # Undefined
               THEN ParamsSet(body1, "ratioLimit", NumStr(a.seedingTimeLimit[1])) ELSE body1
  IN Post(base, APINames_torrents, <<"s", "e", "t", "S", "h", "a", "r", "e", "L", "i", "m", "i", "t", "s">>, body2)

setTorrentLocation_request(base, a) ==
  Post(base, APINames_torrents, <<"s", "e", "t", "L", "o", "c", "a", "t", "i", "o", "n">>,
       <<Field("hashes", HashesField(a.hashes)), Field("location", a.text)>>)

setTorrentCategory_request(base, a) ==
  Post(base, APINames_torrents, <<"s", "e", "t", "C", "a", "t", "e", "g", "o", "r", "y">>,
       <<Field("hashes", HashesField(a.hashes)), Field("category", a.text)>>)

\* as addTorrentTags_request, were the tags joined with a pipe
addTorrentTags_request_pipe(base, a) ==
  Post(base, APINames_torrents, <<"a", "d", "d", "T", "a", "g", "s">>,
       <<Field("hashes", HashesField(a.hashes)), Field("tags", PipeJoin(a.list))>>)

addTorrentTags_request(base, a) ==
  Post(base, APINames_torrents, <<"a", "d", "d", "T", "a", "g", "s">>,
       <<Field("hashes", HashesField(a.hashes)), Field("tags", ArrayJoin(a.list, <<",">>))>>)

\* as removeTorrentTags_request, were the tags joined with a pipe
removeTorrentTags_request_pipe(base, a) ==
  LET body0 == <<Field("hashes", HashesField(a.hashes))>>
      body1 == IF IsArray(a.list) THEN ParamsSet(body0, "tags", PipeJoin(a.list)) ELSE body0
  IN Post(base, APINames_torrents, <<"r", "e", "m", "o", "v", "e", "T", "a", "g", "s">>, body1)

\* removeTorrentTags: the tags field is set only when tags is an array
removeTorrentTags_request(base, a) ==
  LET body0 == <<Field("hashes", HashesField(a.hashes))>>
      body1 == IF IsArray(a.list)
               THEN ParamsSet(body0, "tags", ArrayJoin(a.list, <<",">>)) ELSE body0
  IN Post(base, APINames_torrents, <<"r", "e", "m", "o", "v", "e", "T", "a", "g", "s">>, body1)

createTags_request(base, a) ==
  Post(base, APINames_torrents, <<"c", "r", "e", "a", "t", "e", "T", "a", "g", "s">>,
       <<Field("tags", ArrayJoin(a.list, <<",">>))>>)

deleteTags_request(base, a) ==
  Post(base, APINames_torrents, <<"d", "e", "l", "e", "t", "e", "T", "a", "g", "s">>,
       <<Field("tags", ArrayJoin(a.list, <<",">>))>>)

setAutomaticTorrentManagement_request(base, a) ==
  Post(base, APINames_torrents, <<"s", "e", "t", "A", "u", "t", "o", "M", "a", "n", "a", "g", "e", "m", "e", "n", "t">>,
       <<Field("hashes", HashesField(a.hashes)), Field("enable", BoolStr(a.flag))>>)

setForceStart_request(base, a) ==
  Post(base, APINames_torrents, <<"s", "e", "t", "F", "o", "r", "c", "e", "S", "t", "a", "r", "t">>,
       <<Field("hashes", HashesField(a.hashes)), Field("value", BoolStr(a.flag))>>)

setSuperSeeding_request(base, a) ==
  Post(base, APINames_torrents, <<"s", "e", "t", "S", "u", "p", "e", "r", "S", "e", "e", "d", "i", "n", "g">>,
       <<Field("hashes", HashesField(a.hashes)), Field("value", BoolStr(a.flag))>>)

renameFile_request(base, a) ==
  Post(base, APINames_torrents, <<"r", "e", "n", "a", "m", "e", "F", "i", "l", "e">>,
       <<Field("hash", HashesField(a.hashes)), Field("oldPath", a.text), Field("newPath", a.text2)>>)

renameFolder_request(base, a) ==
  Post(base, APINames_torrents, <<"r", "e", "n", "a", "m", "e", "F", "o", "l", "d", "e", "r">>,
       <<Field("hash", HashesField(a.hashes)), Field("oldPath", a.text), Field("newPath", a.text2)>>)

----------------------------------------------------------------------------
(* The arguments the operations are given.                                 *)

\* the arrays of at most MaxList strings of S
ArraysOf(S) ==
  {JSArray([k \in DOMAIN f |-> JSString(f[k])]) : f \in UNION {[1..n -> S] : n \in 0..MaxList}}

Hash1 == <<"h", "1">>
Hash2 == <<"h", "2">>
All == JSString(<<"a", "l", "l">>)
HashArrays == ArraysOf({Hash1, Hash2})
HashesOrAll == HashArrays \cup {All}
TagArrays == ArraysOf({<<"m", "o", "v", "i", "e", "s">>, <<"2", "0", "2", "4">>})
TrackerArrays == ArraysOf({<<"h", "t", "t", "p", ":", "/", "/", "t", "1", "/", "a">>, <<"u", "d", "p", ":", "/", "/", "t", "2", ":", "6", "9", "6", "9">>})
PeerArrays == ArraysOf({<<"1", "0", ".", "0", ".", "0", ".", "1", ":", "6", "8", "8", "1">>, <<"1", "0", ".", "0", ".", "0", ".", "2", ":", "6", "8", "8", "1">>})
Limits == {0 - 1, 0, 1024}

\* the roots a handle is constructed with: none (the default), with and without a
\* trailing slash, with a path of their own
Roots ==
  { Undefined,
    Some(<<"h", "t", "t", "p", ":", "/", "/", "l", "o", "c", "a", "l", "h", "o", "s", "t", ":", "8", "0", "8", "0">>),
    Some(<<"h", "t", "t", "p", ":", "/", "/", "l", "o", "c", "a", "l", "h", "o", "s", "t", ":", "8", "0", "8", "0", "/">>),
    Some(<<"h", "t", "t", "p", ":", "/", "/", "h", "o", "s", "t", "/", "q", "b", "t">>),
    Some(<<"h", "t", "t", "p", ":", "/", "/", "h", "o", "s", "t", "/", "q", "b", "t", "/">>),
    Some(<<"h", "t", "t", "p", "s", ":", "/", "/", "h", "o", "s", "t", ":", "8", "4", "4", "3", "/", "a", "/", "b", "/">>) }

\* the options getTorrentList is given: none, or filter, category, sort and reverse
TorrentListOptions ==
  {JSUndefined} \cup
  { JSObject(<<[key |-> <<"f", "i", "l", "t", "e", "r">>, value |-> f], [key |-> <<"c", "a", "t", "e", "g", "o", "r", "y">>, value |-> c],
               [key |-> <<"s", "o", "r", "t">>, value |-> s], [key |-> <<"r", "e", "v", "e", "r", "s", "e">>, value |-> r]>>) :
      f \in {JSUndefined} \cup ArraysOf({<<"p", "a", "u", "s", "e", "d">>, <<"a", ",", "b">>}),
      c \in {JSUndefined, JSArray(<<JSString(<<"t", "v">>), JSString(<<"t", "v">>)>>)},
      s \in {JSUndefined, JSString(<<"n", "a", "m", "e">>)},
      r \in {JSUndefined, JSBool(TRUE)} }

NoArgs ==
  [hashes |-> JSUndefined, list |-> JSUndefined, flag |-> FALSE, num |-> 0, text |-> <<>>,
   text2 |-> <<>>, ratioLimit |-> Undefined, seedingTimeLimit |-> Undefined,
   query |-> JSUndefined]

ShapeOps ==
  { "getApplicationVersion", "logout", "getTorrentList", "pauseTorrents",
    "resumeTorrents", "recheckTorrents", "reannounceTorrents",
    "deleteTorrents", "addTrackersToTorrent", "removeTrackers", "addPeers",
    "increaseTorrentPriority", "decreaseTorrentPriority",
    "maximalTorrentPriority", "minimalTorrentPriority",
    "getTorrentDownloadLimit", "getTorrentUploadLimit",
    "toggleSequentialDownload", "setFirstLastPiecePriority",
    "setTorrentDownloadLimit", "setTorrentUploadLimit", "setTorrentShareLimit",
    "setTorrentLocation", "setTorrentCategory", "addTorrentTags",
    "removeTorrentTags", "createTags", "deleteTags",
    "setAutomaticTorrentManagement", "setForceStart", "setSuperSeeding",
    "renameFile", "renameFolder" }

\* the arguments operation op is given
ArgsOf(op) ==
  CASE op \in {"getApplicationVersion", "logout"} -> {NoArgs}
    [] op = "getTorrentList" -> {[NoArgs EXCEPT !.query = o] : o \in TorrentListOptions}
    [] op \in { "pauseTorrents", "resumeTorrents", "recheckTorrents",
              "reannounceTorrents" } ->
         {[NoArgs EXCEPT !.hashes = h] : h \in HashArrays}
    [] op \in { "increaseTorrentPriority", "decreaseTorrentPriority",
              "maximalTorrentPriority", "minimalTorrentPriority",
              "getTorrentDownloadLimit", "getTorrentUploadLimit",
              "toggleSequentialDownload", "setFirstLastPiecePriority" } ->
         {[NoArgs EXCEPT !.hashes = h] : h \in HashesOrAll}
    [] op \in { "deleteTorrents", "setAutomaticTorrentManagement",
              "setForceStart", "setSuperSeeding" } ->
         {[NoArgs EXCEPT !.hashes = h, !.flag = b] : h \in HashesOrAll, b \in BOOLEAN}
    [] op \in {"addTrackersToTorrent", "removeTrackers"} ->
         {[NoArgs EXCEPT !.text = Hash1, !.list = u] : u \in TrackerArrays}
    [] op = "addPeers" ->
         {[NoArgs EXCEPT !.hashes = h, !.list = l] : h \in HashArrays, l \in PeerArrays}
    [] op \in {"setTorrentDownloadLimit", "setTorrentUploadLimit"} ->
         {[NoArgs EXCEPT !.hashes = h, !.num = n] : h \in HashesOrAll, n \in Limits}
    [] op = "setTorrentShareLimit" ->
         {[NoArgs EXCEPT !.hashes = h, !.ratioLimit = r, !.seedingTimeLimit = t] :
            h \in HashesOrAll, r \in {Undefined, Some(2)}, t \in {Undefined, Some(60)}}
    [] op = "setTorrentLocation" ->
         {[NoArgs EXCEPT !.hashes = h, !.text = <<"/", "d", "a", "t", "a">>] : h \in HashesOrAll}
    [] op = "setTorrentCategory" ->
         {[NoArgs EXCEPT !.hashes = h, !.text = <<"t", "v">>] : h \in HashesOrAll}
    [] op = "addTorrentTags" ->
         {[NoArgs EXCEPT !.hashes = h, !.list = l] : h \in HashesOrAll, l \in TagArrays}
    [] op = "removeTorrentTags" ->
         {[NoArgs EXCEPT !.hashes = h, !.list = l] :
            h \in HashesOrAll, l \in TagArrays \cup {JSUndefined}}
    [] op \in {"createTags", "deleteTags"} -> {[NoArgs EXCEPT !.list = l] : l \in TagArrays}
    [] op \in {"renameFile", "renameFolder"} ->
         {[NoArgs EXCEPT !.hashes = h, !.text = <<"a", ".", "m", "k", "v">>, !.text2 = <<"b", ".", "m", "k", "v">>] : h \in HashesOrAll}

\* the request operation op passes to fetch when given the arguments a
RequestOf(op, a, base) ==
  CASE op = "getApplicationVersion" -> getApplicationVersion_request(base, a)
    [] op = "logout" -> logout_request(base, a)
    [] op = "getTorrentList" -> getTorrentList_request(base, a)
    [] op = "pauseTorrents" -> pauseTorrents_request(base, a)
    [] op = "resumeTorrents" -> resumeTorrents_request(base, a)
    [] op = "recheckTorrents" -> recheckTorrents_request(base, a)
    [] op = "reannounceTorrents" -> reannounceTorrents_request(base, a)
    [] op = "deleteTorrents" -> deleteTorrents_request(base, a)
    [] op = "addTrackersToTorrent" -> addTrackersToTorrent_request(base, a)
    [] op = "removeTrackers" -> removeTrackers_request(base, a)
    [] op = "addPeers" -> addPeers_request(base, a)
    [] op = "increaseTorrentPriority" -> increaseTorrentPriority_request(base, a)
    [] op = "decreaseTorrentPriority" -> decreaseTorrentPriority_request(base, a)
    [] op = "maximalTorrentPriority" -> maximalTorrentPriority_request(base, a)
    [] op = "minimalTorrentPriority" -> minimalTorrentPriority_request(base, a)
    [] op = "getTorrentDownloadLimit" -> getTorrentDownloadLimit_request(base, a)
    [] op = "getTorrentUploadLimit" -> getTorrentUploadLimit_request(base, a)
    [] op = "toggleSequentialDownload" -> toggleSequentialDownload_request(base, a)
    [] op = "setFirstLastPiecePriority" -> setFirstLastPiecePriority_request(base, a)
    [] op = "setTorrentDownloadLimit" -> setTorrentDownloadLimit_request(base, a)
    [] op = "setTorrentUploadLimit" -> setTorrentUploadLimit_request(base, a)
    [] op = "setTorrentShareLimit" -> setTorrentShareLimit_request(base, a)
    [] op = "setTorrentLocation" -> setTorrentLocation_request(base, a)
    [] op = "setTorrentCategory" -> setTorrentCategory_request(base, a)
    [] op = "addTorrentTags" -> addTorrentTags_request(base, a)
    [] op = "removeTorrentTags" -> removeTorrentTags_request(base, a)
    [] op = "createTags" -> createTags_request(base, a)
    [] op = "deleteTags" -> deleteTags_request(base, a)
    [] op = "setAutomaticTorrentManagement" -> setAutomaticTorrentManagement_request(base, a)
    [] op = "setForceStart" -> setForceStart_request(base, a)
    [] op = "setSuperSeeding" -> setSuperSeeding_request(base, a)
    [] op = "renameFile" -> renameFile_request(base, a)
    [] op = "renameFolder" -> renameFolder_request(base, a)

NoRequestBuilt ==
  [apiName |-> <<>>, methodName |-> <<>>, method |-> "", href |-> <<>>, path |-> <<>>,
   search |-> <<>>, referer |-> <<>>, body |-> Undefined]

\* an operation and its arguments, before the operation has acted
Given(op, a) == [op |-> op, args |-> a, sent |-> FALSE, req |-> NoRequestBuilt]

NoBuilt == Given("", NoArgs)

----------------------------------------------------------------------------
(* addNewTorrent in full.  An element of torrents is a string, a Blob, a   *)
(* Buffer or a Stream: kind says which, str is the string (of a Blob, its  *)
(* type), data stands for the bytes of a Blob, a Buffer, a Stream or the   *)
(* file a path names, and ok says whether that file can be read.  A        *)
(* FormData body is the sequence of its fields, a value being a string or  *)
(* a Blob.                                                                 *)

\* new Blob([data], { type: 'application/x-bittorrent' })
TorrentBlob(data) ==
  [t |-> "blob", data |-> data,
   type |-> <<"a", "p", "p", "l", "i", "c", "a", "t", "i", "o", "n", "/", "x", "-", "b", "i", "t", "t", "o", "r", "r", "e", "n", "t">>]

\* the string FormData.append makes of a value that is not a Blob
FormString(v) ==
  CASE v.t = "string" -> v.str
    [] v.t = "number" -> v.num
    [] v.t = "boolean" -> BoolStr(v.bool)
    [] v.t = "null" -> <<"n", "u", "l", "l">>
    [] v.t = "undefined" -> <<"u", "n", "d", "e", "f", "i", "n", "e", "d">>

\* FormData.prototype.append(name, value)
FormAppend(form, name, value) ==
  Append(form, Field(name, IF value.t = "blob" THEN value ELSE JSString(FormString(value))))

\* v.startsWith('http://') || v.startsWith('https://') || v.startsWith('magnet:')
\* || v.startsWith('bc://bt/')
IsLink(v) ==
  \/ StartsWith(v, <<"h", "t", "t", "p", ":", "/", "/">>)
  \/ StartsWith(v, <<"h", "t", "t", "p", "s", ":", "/", "/">>)
  \/ StartsWith(v, <<"m", "a", "g", "n", "e", "t", ":">>)
  \/ StartsWith(v, <<"b", "c", ":", "/", "/", "b", "t", "/">>)

\* torrents.filter(v => typeof v === 'string').filter(v => v.startsWith(...))
LinksOf(torrents) ==
  LET links == SelectSeq(torrents, LAMBDA e : e.kind = "string" /\ IsLink(e.str))
  IN [k \in DOMAIN links |-> links[k].str]

\* Object.entries(options ?? {}).forEach(([key, value]) => body.append(key, value))
RECURSIVE AppendOptions(_, _)
AppendOptions(form, entries) ==
  IF entries = <<>> THEN form
  ELSE AppendOptions(FormAppend(form, Head(entries).key, Head(entries).value),
                     Tail(entries))

\* as addNewTorrent_prepare, were the links joined with a comma
addNewTorrent_prepare_comma(torrents, options) ==
  LET entries == IF options.t = "object" THEN options.obj ELSE <<>>
      body == AppendOptions(<<>>, entries)
  IN ParamsSet(body, "urls", JSString(Join(LinksOf(torrents), <<",">>)))

\* addNewTorrent before its loop: the options, then body.set('urls', urls.join('\n'))
addNewTorrent_prepare(torrents, options) ==
  LET entries == IF options.t = "object" THEN options.obj ELSE <<>>
      body == AppendOptions(<<>>, entries)
  IN ParamsSet(body, "urls", JSString(Join(LinksOf(torrents), <<"\n">>)))

\* as addNewTorrent_loop, were the request sent with the parts gathered so far when
\* a file cannot be read
RECURSIVE addNewTorrent_loop_sendsPartial(_, _, _)
addNewTorrent_loop_sendsPartial(torrents, k, body) ==
  IF k > Len(torrents) THEN [at |-> "end", k |-> k, body |-> body]
  ELSE LET e == torrents[k]
           urls == LinksOf(torrents)
       IN CASE e.kind = "string" /\ (\E j \in DOMAIN urls : urls[j] = e.str) ->
                 addNewTorrent_loop_sendsPartial(torrents, k + 1, body)
            [] e.kind = "string" /\ ~(\E j \in DOMAIN urls : urls[j] = e.str) ->
                 IF e.ok
                 THEN addNewTorrent_loop_sendsPartial(torrents, k + 1,
                        FormAppend(body, "torrents", TorrentBlob(e.data)))
                 ELSE [at |-> "end", k |-> k, body |-> body]
            [] e.kind = "blob" ->
                 addNewTorrent_loop_sendsPartial(torrents, k + 1,
                   FormAppend(body, "torrents", [t |-> "blob", data |-> e.data, type |-> e.str]))
            [] e.kind = "buffer" ->
                 addNewTorrent_loop_sendsPartial(torrents, k + 1,
                   FormAppend(body, "torrents", TorrentBlob(e.data)))
            [] e.kind = "stream" -> [at |-> "stream", k |-> k, body |-> body]

\* the loop of addNewTorrent from element k on, up to its next suspension, and where
\* it stops (at), at which element (k), with which body: a link is passed over, a
\* path is read and appended (or the read throws), a Blob is appended, a Buffer is
\* wrapped and appended, a Stream is awaited
RECURSIVE addNewTorrent_loop(_, _, _)
addNewTorrent_loop(torrents, k, body) ==
  IF k > Len(torrents) THEN [at |-> "end", k |-> k, body |-> body]
  ELSE LET e == torrents[k]
           urls == LinksOf(torrents)
       IN CASE e.kind = "string" /\ (\E j \in DOMAIN urls : urls[j] = e.str) ->
                 addNewTorrent_loop(torrents, k + 1, body)
            [] e.kind = "string" /\ ~(\E j \in DOMAIN urls : urls[j] = e.str) ->
                 IF e.ok
                 THEN addNewTorrent_loop(torrents, k + 1,
                        FormAppend(body, "torrents", TorrentBlob(e.data)))
                 ELSE [at |-> "threw", k |-> k, body |-> body]
            [] e.kind = "blob" ->
                 addNewTorrent_loop(torrents, k + 1,
                   FormAppend(body, "torrents", [t |-> "blob", data |-> e.data, type |-> e.str]))
            [] e.kind = "buffer" ->
                 addNewTorrent_loop(torrents, k + 1,
                   FormAppend(body, "torrents", TorrentBlob(e.data)))
            [] e.kind = "stream" -> [at |-> "stream", k |-> k, body |-> body]

\* the elements addNewTorrent is given: two links, a path that can be read and one
\* that cannot, a Blob, a Buffer, a Stream
Elements ==
  { [kind |-> "string", str |-> <<"h", "t", "t", "p", ":", "/", "/", "t", "/", "a">>,
     data |-> <<>>, ok |-> TRUE],
    [kind |-> "string", str |-> <<"m", "a", "g", "n", "e", "t", ":", "?", "x", "t", "=", "1">>,
     data |-> <<>>, ok |-> TRUE],
    [kind |-> "string", str |-> <<"a", ".", "t", "o", "r", "r", "e", "n", "t">>,
     data |-> <<"F">>, ok |-> TRUE],
    [kind |-> "string", str |-> <<"g", "o", "n", "e", ".", "t", "o", "r", "r", "e", "n", "t">>,
     data |-> <<>>, ok |-> FALSE],
    [kind |-> "blob", str |-> <<>>, data |-> <<"B">>, ok |-> TRUE],
    [kind |-> "buffer", str |-> <<>>, data |-> <<"U">>, ok |-> TRUE],
    [kind |-> "stream", str |-> <<>>, data |-> <<"S">>, ok |-> TRUE] }

\* the options addNewTorrent is given: none, an empty object, some with values, one
\* with a key whose value is undefined
AddOptions ==
  { JSUndefined,
    JSObject(<<>>),
    JSObject(<<[key |-> "category", value |-> JSString(<<"t", "v">>)],
               [key |-> "upLimit", value |-> JSNumber(<<"1", "0", "2", "4">>)],
               [key |-> "autoTMM", value |-> JSBool(TRUE)]>>),
    JSObject(<<[key |-> "savepath", value |-> JSString(<<"/", "d", "a", "t", "a">>)],
               [key |-> "category", value |-> JSUndefined]>>) }

----------------------------------------------------------------------------
(* The state machine.  last is the invocation that settled in the step     *)
(* leading to the current state, if one did.                               *)

NoCall == IdleCall

InFlight == {i \in CallIds : calls[i].pc \in {"stream", "fetch", "text", "returned"}}

\* the action name an operation addresses
ActionOf(op) ==
  CASE op = "login" -> "login"
    [] op = "logout" -> "logout"
    [] op = "getApplicationVersion" -> "version"
    [] op = "addNewTorrent" -> "add"

\* fetch() counts the requests per action name
Fetch(n, fetched) ==
  [m \in DOMAIN n |-> n[m] + Cardinality({k \in DOMAIN fetched : fetched[k].methodName = m})]

Init ==
  /\ authCookie = Undefined
  /\ calls = [i \in CallIds |-> IdleCall]
  /\ net = [m \in {"login", "logout", "version", "add"} |-> 0]
  /\ invoked = [m \in {"login", "logout", "version", "add"} |-> 0]
  /\ last = NoCall
  /\ root = Undefined
  /\ url = constructor(root)
  /\ built = NoBuilt
  /\ add = [pc |-> "none", torrents |-> <<>>, options |-> JSUndefined, k |-> 0, body |-> <<>>]

\* as Apply, were the Cookie header of the requests in flight rewritten when the
\* credential changes
Apply_refreshesCookies(i, e) ==
  /\ authCookie' = e.authCookie
  /\ calls' = [j \in CallIds |->
                IF j = i THEN (IF e.call.pc = "done" THEN Settled(e.call) ELSE e.call)
                ELSE IF calls[j].pc \in {"fetch", "text"} /\ e.authCookie # authCookie
                     THEN [calls[j] EXCEPT !.req.cookie = e.authCookie]
                ELSE calls[j]]
  /\ net' = Fetch(net, e.fetched)
  /\ last' = IF e.call.pc = "done" THEN e.call ELSE NoCall
  /\ UNCHANGED <<root, url, built, add>>

\* one step of invocation i takes effect
Apply(i, e) ==
  /\ authCookie' = e.authCookie
  /\ calls' = [calls EXCEPT ![i] = IF e.call.pc = "done" THEN Settled(e.call) ELSE e.call]
  /\ net' = Fetch(net, e.fetched)
  /\ last' = IF e.call.pc = "done" THEN e.call ELSE NoCall
  /\ UNCHANGED <<root, url, built, add>>

\* the caller invokes op while fewer than k operations are in flight
Invoke(i, op, k) ==
  /\ calls[i].pc = "idle"
  /\ \A j \in CallIds : j < i => calls[j].pc # "idle"
  /\ Cardinality(InFlight) < k
  /\ invoked' = [invoked EXCEPT ![ActionOf(op)] = @ + 1]
  /\ Apply(i, Start(op, authCookie))

FetchResolve(i, R) ==
  /\ calls[i].pc = "fetch"
  /\ \E response \in R : Apply(i, callMethod_fetchResolved(calls[i], response, authCookie))
  /\ UNCHANGED invoked

FetchReject(i) ==
  /\ calls[i].pc = "fetch"
  /\ Apply(i, callMethod_fetchRejected(calls[i], authCookie))
  /\ UNCHANGED invoked

TextResolve(i, T) ==
  /\ calls[i].pc = "text"
  /\ \E text \in T : Apply(i, callMethod_textResolved(calls[i], text, authCookie))
  /\ UNCHANGED invoked

TextReject(i) ==
  /\ calls[i].pc = "text"
  /\ Apply(i, callMethod_textRejected(calls[i], authCookie))
  /\ UNCHANGED invoked

\* as LoginResume, were the assignment held back until no other call is in flight
LoginResume_exclusive(i) ==
  /\ calls[i].pc = "returned"
  /\ InFlight = {i}
  /\ Apply(i, login_resume(calls[i], authCookie))
  /\ UNCHANGED invoked

LoginResume(i) ==
  /\ calls[i].pc = "returned"
  /\ Apply(i, login_resume(calls[i], authCookie))
  /\ UNCHANGED invoked

\* the caller invokes addNewTorrent, with or without a Stream among the torrents
InvokeAddNewTorrent(i, k) ==
  /\ calls[i].pc = "idle"
  /\ \A j \in CallIds : j < i => calls[j].pc # "idle"
  /\ Cardinality(InFlight) < k
  /\ invoked' = [invoked EXCEPT !["add"] = @ + 1]
  /\ \E hasStream \in BOOLEAN :
       Apply(i, addNewTorrent_start([IdleCall EXCEPT !.op = "addNewTorrent"],
                                    hasStream, authCookie))

\* the stream addNewTorrent waits for emits 'end'
StreamEnd(i) ==
  /\ calls[i].pc = "stream"
  /\ Apply(i, addNewTorrent_streamEnd(calls[i], authCookie))
  /\ UNCHANGED invoked

\* the caller writes the public field authCookie
AssignAuthCookie ==
  /\ \E v \in FieldValues : authCookie' = v
  /\ last' = NoCall
  /\ UNCHANGED <<calls, net, invoked, root, url, built, add>>

NextOf(k, R, T) ==
  \E i \in CallIds :
    \/ \E op \in Ops : Invoke(i, op, k)
    \/ FetchResolve(i, R)
    \/ FetchReject(i)
    \/ TextResolve(i, T)
    \/ TextReject(i)
    \/ LoginResume(i)

\* operations overlap on one handle
Next == NextOf(MaxInFlight, FewResponses, FewTexts)

Spec == Init /\ [][Next]_vars

\* the caller awaits each operation before invoking the next
NextSeq == NextOf(1, Responses, Texts)

SpecSeq == Init /\ [][NextSeq]_vars

\* the caller also writes the field
NextField == NextOf(1, FewResponses, FewTexts) \/ AssignAuthCookie

SpecField == Init /\ [][NextField]_vars

\* a handle that holds the credential of an earlier login
InitRace ==
  /\ authCookie = Some(CookieSIDx)
  /\ calls = [i \in CallIds |-> IdleCall]
  /\ net = [m \in {"login", "logout", "version", "add"} |-> 0]
  /\ invoked = [m \in {"login", "logout", "version", "add"} |-> 0]
  /\ last = NoCall
  /\ root = Undefined
  /\ url = constructor(root)
  /\ built = NoBuilt
  /\ add = [pc |-> "none", torrents |-> <<>>, options |-> JSUndefined, k |-> 0, body |-> <<>>]

\* login, a plain call and addNewTorrent overlap, every call may be in flight at once
NextRace ==
  \E i \in CallIds :
    \/ \E op \in {"login", "getApplicationVersion"} : Invoke(i, op, MaxCalls)
    \/ InvokeAddNewTorrent(i, MaxCalls)
    \/ StreamEnd(i)
    \/ FetchResolve(i, RaceResponses)
    \/ FetchReject(i)
    \/ TextResolve(i, FewTexts)
    \/ TextReject(i)
    \/ LoginResume(i)

SpecRace == InitRace /\ [][NextRace]_vars

\* a handle constructed with one of the roots, and an operation about to be invoked
\* with its arguments
InitShape ==
  /\ authCookie = Undefined
  /\ calls = [i \in CallIds |-> IdleCall]
  /\ net = [m \in {"login", "logout", "version", "add"} |-> 0]
  /\ invoked = [m \in {"login", "logout", "version", "add"} |-> 0]
  /\ last = NoCall
  /\ root \in Roots
  /\ url = constructor(root)
  /\ \E op \in ShapeOps : \E a \in ArgsOf(op) : built = Given(op, a)
  /\ add = [pc |-> "none", torrents |-> <<>>, options |-> JSUndefined, k |-> 0, body |-> <<>>]

\* the operation builds its request and passes it to fetch
Dispatch ==
  /\ ~built.sent
  /\ built' = [built EXCEPT !.sent = TRUE, !.req = RequestOf(built.op, built.args, url)]
  /\ UNCHANGED <<authCookie, calls, net, invoked, last, root, url, add>>

NextShape == Dispatch

SpecShape == InitShape /\ [][NextShape]_vars

\* the invocation of addNewTorrent goes on from element k of its loop with the body
\* it has: up to the await of a stream, the throw of a file read, or callMethod
AddProceed(c, k, body) ==
  LET r == addNewTorrent_loop(add.torrents, k, body)
      e == CASE r.at = "stream" -> Effect([c EXCEPT !.pc = "stream"], authCookie, <<>>)
             [] r.at = "threw" -> Throw(c, [kind |-> "FileError", code |-> 0, message |-> <<>>,
                                            body |-> JSUndefined], authCookie)
             [] r.at = "end" ->
                  callMethod_start(c, "torrents", "add", Some("POST"), authCookie)
  IN /\ add' = [add EXCEPT !.pc = CASE r.at = "stream" -> "stream"
                                    [] r.at = "threw" -> "failed"
                                    [] r.at = "end" -> "sent",
                           !.k = r.k, !.body = r.body]
     /\ authCookie' = e.authCookie
     /\ calls' = [calls EXCEPT ![1] = IF e.call.pc = "done" THEN Settled(e.call) ELSE e.call]
     /\ net' = Fetch(net, e.fetched)
     /\ last' = IF e.call.pc = "done" THEN e.call ELSE NoCall
     /\ UNCHANGED <<root, url, built>>

\* the caller invokes addNewTorrent(torrents, options)
AddInvoke ==
  /\ add.pc = "idle"
  /\ invoked' = [invoked EXCEPT !["add"] = @ + 1]
  /\ AddProceed([IdleCall EXCEPT !.op = "addNewTorrent"], 1,
                addNewTorrent_prepare(add.torrents, add.options))

\* the stream awaited emits 'end': its chunks become a Blob part and the loop goes on
AddStreamEnd ==
  /\ add.pc = "stream"
  /\ AddProceed(calls[1], add.k + 1,
                FormAppend(add.body, "torrents", TorrentBlob(add.torrents[add.k].data)))
  /\ UNCHANGED invoked

\* the stream awaited emits 'error' or 'close' and never 'end': the promise awaited
\* has no other way to settle
AddStreamClose ==
  /\ add.pc = "stream"
  /\ add' = [add EXCEPT !.pc = "stalled"]
  /\ last' = NoCall
  /\ UNCHANGED <<authCookie, calls, net, invoked, root, url, built>>

\* a handle with or without a credential, and addNewTorrent about to be invoked with
\* its arguments
InitAdd ==
  /\ authCookie \in {Undefined, Some(CookieSIDabc)}
  /\ calls = [i \in CallIds |-> IdleCall]
  /\ net = [m \in {"login", "logout", "version", "add"} |-> 0]
  /\ invoked = [m \in {"login", "logout", "version", "add"} |-> 0]
  /\ last = NoCall
  /\ root = Undefined
  /\ url = constructor(root)
  /\ built = NoBuilt
  /\ \E n \in 0..MaxList : \E t \in [1..n -> Elements] : \E o \in AddOptions :
       add = [pc |-> "idle", torrents |-> t, options |-> o, k |-> 0, body |-> <<>>]

NextAdd ==
  \/ AddInvoke
  \/ AddStreamEnd
  \/ AddStreamClose
  \/ FetchResolve(1, FewResponses)
  \/ FetchReject(1)
  \/ TextResolve(1, FewTexts)
  \/ TextReject(1)

SpecAdd == InitAdd /\ [][NextAdd]_vars

\* addNewTorrent is run once invoked, a stream awaited ends or closes, and the
\* network answers, or fails, every request
SpecAddFair ==
  /\ InitAdd
  /\ [][NextAdd]_vars
  /\ WF_vars(AddInvoke)
  /\ WF_vars(AddStreamEnd \/ AddStreamClose)
  /\ WF_vars(FetchResolve(1, FewResponses) \/ FetchReject(1))
  /\ WF_vars(TextResolve(1, FewTexts) \/ TextReject(1))

----------------------------------------------------------------------------
(* The claims.                                                             *)

Settles(c) == c.pc = "done"

InSuccessRange(status) == status \in 200..299

SIDName == <<"S", "I", "D">>

\* the name of a set-cookie value: what precedes its first "="
RECURSIVE CookieName(_)
CookieName(s) ==
  IF s = <<>> \/ Head(s) = "=" THEN <<>> ELSE <<Head(s)>> \o CookieName(Tail(s))

\* the positions of the set-cookie values named SID
SIDPositions(cookies) == {k \in 1..Len(cookies) : CookieName(cookies[k]) = SIDName}

First(S) == CHOOSE k \in S : \A j \in S : k <= j

\* a string with a character that is not white space
NonBlank(s) == \E k \in 1..Len(s) : s[k] \notin {" ", "\t", "\n", "\r"}

Version465 == <<"4", ".", "6", ".", "5">>

\* C1: a response received with a status outside 200..299 makes the dispatcher and
\* the operation fail with a RequestError whose code is the status and whose
\* message is the response text, empty text included; a response with such a
\* status is never returned as a value.
C1_NonSuccessThrowsRequestError ==
  /\ (Settles(last) /\ last.got = "body" /\ ~InSuccessRange(last.status)) =>
       /\ last.result.kind = "RequestError"
       /\ last.result.code = last.status
       /\ last.result.message = last.text
       /\ last.out = last.result
  /\ (Settles(last) /\ last.got # "nothing" /\ ~InSuccessRange(last.status)) =>
       last.out.kind # "value" /\ last.result.kind # "value"
  /\ \A i \in CallIds : calls[i].pc = "returned" => InSuccessRange(calls[i].status)

C1_Witness ==
  /\ Settles(last) /\ last.got = "body"
  /\ last.status = 300 /\ last.text = <<>>
  /\ last.out.kind = "RequestError" /\ last.out.code = 300 /\ last.out.message = <<>>

\* C2: a response with a status in 200..299 never makes the dispatcher throw: it
\* returns the value JSON.parse gives when the text is JSON, and the text itself,
\* unchanged, when it is not (a version string, an empty body).
C2_SuccessParsesJsonElseRawText ==
  (Settles(last) /\ last.got = "body" /\ InSuccessRange(last.status)) =>
    /\ last.result.kind = "value"
    /\ last.out.kind = "value"
    /\ JSONParse(last.text).ok => last.result.body = JSONParse(last.text).val
    /\ ~JSONParse(last.text).ok => last.result.body = JSString(last.text)
    /\ last.text = Version465 => last.result.body = JSString(Version465)
    /\ last.text = <<>> => last.result.body = JSString(<<>>)
    /\ last.text = <<"\"">> \o Version465 \o <<"\"">> => last.result.body = JSString(Version465)
    /\ last.text = <<"[", "1", ",", "2", "]">> =>
         last.result.body = JSArray(<<JSNumber(<<"1">>), JSNumber(<<"2">>)>>)
    /\ last.op = "getApplicationVersion" => last.out.body = last.result.body

C2_Witness ==
  /\ Settles(last) /\ last.op = "getApplicationVersion"
  /\ last.status = 200 /\ last.text = Version465
  /\ last.out.kind = "value" /\ last.out.body = JSString(Version465)

\* C3: after a login that returned normally on a response with a set-cookie value
\* named SID, the credential is the first such value, verbatim; a value of another
\* cookie name is never the credential.
C3_LoginStoresFirstSIDVerbatim ==
  /\ (Settles(last) /\ last.op = "login" /\ last.out.kind = "value"
        /\ SIDPositions(last.setCookie) # {}) =>
       authCookie = Some(last.setCookie[First(SIDPositions(last.setCookie))])
  /\ authCookie # Undefined => CookieName(authCookie[1]) = SIDName

C3_Witness ==
  /\ Settles(last) /\ last.op = "login" /\ last.out.kind = "value"
  /\ last.setCookie = <<CookieLang, CookieSIDabc>>
  /\ authCookie = Some(CookieSIDabc)

\* C4: once a login has set the credential, every request dispatched while it is
\* held, by any operation, carries a Cookie header that is exactly the credential.
C4_RequestsCarryCredential ==
  [][\A i \in CallIds :
       (calls[i].pc = "idle" /\ calls'[i].pc # "idle" /\ authCookie # Undefined) =>
         /\ calls'[i].req.cookie = authCookie
         /\ authCookie' = authCookie]_vars

C4_Witness ==
  \E i \in CallIds :
    /\ calls[i].pc = "fetch" /\ calls[i].req.methodName = "login"
    /\ calls[i].req.cookie = Some(CookieSIDabc)
    /\ authCookie = Some(CookieSIDabc)

\* C5: logout sends GET auth/logout and no step of a logout changes the credential,
\* so the next request carries the same Cookie header as before.
C5_LogoutKeepsCredential ==
  /\ [](\A i \in CallIds : (calls[i].op = "logout" /\ calls[i].pc # "idle") =>
          /\ calls[i].req.apiName = "auth"
          /\ calls[i].req.methodName = "logout")
  /\ [][\A i \in CallIds :
          ((calls[i].op = "logout" \/ calls'[i].op = "logout") /\ calls'[i] # calls[i]) =>
            authCookie' = authCookie]_vars

C5_Witness ==
  /\ Settles(last) /\ last.op = "logout" /\ last.out.kind = "value"
  /\ last.req.cookie = Some(CookieSIDabc)
  /\ authCookie = Some(CookieSIDabc)
  /\ net["logout"] = 1

\* C6: a login whose 2xx response has no set-cookie value named SID returns
\* normally and leaves the credential unset; a later call is then sent without a
\* Cookie header and, when the server refuses it, fails with a RequestError.
C6_LoginWithoutCookieIsSilent ==
  /\ (Settles(last) /\ last.op = "login" /\ last.got = "body"
        /\ InSuccessRange(last.status) /\ SIDPositions(last.setCookie) = {}) =>
       /\ last.out = Fulfilled(JSUndefined)
       /\ authCookie = Undefined
  /\ \A i \in CallIds :
       (calls[i].pc \in {"fetch", "text"} /\ calls[i].held = Undefined) =>
         calls[i].req.cookie = Undefined
  /\ (Settles(last) /\ last.held = Undefined /\ last.got = "body"
        /\ ~InSuccessRange(last.status)) =>
       last.out.kind = "RequestError"

C6_Witness ==
  /\ Settles(last) /\ last.op = "login" /\ last.out.kind = "value"
  /\ last.held = Some(CookieSIDabc)
  /\ last.setCookie = <<CookieXSID, CookieLowerSid>>
  /\ authCookie = Undefined

\* C7: a request carries a Cookie header exactly when the credential held at its
\* dispatch is a string with a character that is not white space; the header is
\* never sent with an empty value.
C7_CookieHeaderIffNonBlank ==
  [][\A i \in CallIds :
       (calls[i].pc = "idle" /\ calls'[i].pc # "idle") =>
         /\ (calls'[i].req.cookie # Undefined) <=>
              (authCookie # Undefined /\ NonBlank(authCookie[1]))
         /\ calls'[i].req.cookie # Some(<<>>)]_vars

C7_Witness ==
  \E i \in CallIds :
    /\ calls[i].pc = "fetch"
    /\ calls[i].held = Some(<<" ", "\t">>)
    /\ calls[i].req.cookie = Undefined

\* C8: every invocation calls fetch exactly once, whether it succeeds or fails:
\* the requests on the network are, action by action, the operations invoked.
C8_OneRequestPerCall ==
  /\ \A i \in CallIds : calls[i].pc # "idle" => calls[i].nreq = 1
  /\ Settles(last) => last.nreq = 1
  /\ \A m \in DOMAIN net : net[m] = invoked[m]

C8_Witness ==
  /\ Settles(last) /\ last.out.kind = "RequestError" /\ last.status = 403
  /\ last.nreq = 1
  /\ net["version"] = 2 /\ invoked["version"] = 2

\* C9: when fetch or the reading of the body fails, the operation fails with the
\* transport's error, not with a RequestError; a RequestError always means that a
\* response was received in full with a status outside 200..299.
C9_TransportErrorNotWrapped ==
  /\ (Settles(last) /\ last.got # "body") =>
       /\ last.out.kind = "TransportError"
       /\ last.result.kind = "TransportError"
  /\ (Settles(last) /\ last.out.kind = "RequestError") =>
       last.got = "body" /\ ~InSuccessRange(last.status)

C9_Witness ==
  /\ Settles(last) /\ last.got = "nothing"
  /\ last.out.kind = "TransportError"
  /\ last.req.cookie = Some(CookieSIDabc)

\* C10: a refusal of a request that carried a credential fails with a RequestError
\* of the server's status; the client sends no auth/login request the caller did
\* not invoke, and the credential is the same after the failure.
C10_NoAutomaticReauthentication ==
  /\ []((Settles(last) /\ last.req.cookie # Undefined /\ last.got = "body"
           /\ ~InSuccessRange(last.status)) =>
          last.out.kind = "RequestError" /\ last.out.code = last.status)
  /\ [](net["login"] = invoked["login"])
  /\ [][(Settles(last') /\ last'.out.kind # "value") => authCookie' = authCookie]_vars

C10_Witness ==
  /\ Settles(last) /\ last.op = "getApplicationVersion"
  /\ last.out.kind = "RequestError" /\ last.out.code = 403
  /\ last.req.cookie = Some(CookieSIDabc)
  /\ authCookie = Some(CookieSIDabc)
  /\ net["login"] = 1

\* C11: nothing holds the credential still while calls are in flight.  login's
\* assignment to authCookie is never held back by the other calls in flight, and an
\* addNewTorrent waiting for its stream is never held back from reading the
\* credential by a login in flight; so of the calls in flight when login is issued,
\* those that reached fetch before the assignment carry the old credential and
\* those that reach it after carry the new one.
C11_NoLockOnCredential ==
  \A i \in CallIds :
    /\ calls[i].pc = "returned" => ENABLED LoginResume(i)
    /\ calls[i].pc = "stream" => ENABLED StreamEnd(i)
    /\ calls[i].pc = "fetch" =>
         calls[i].req.cookie = (IF calls[i].held # Undefined /\ NonBlank(calls[i].held[1])
                                THEN calls[i].held ELSE Undefined)

\* calls 1 and 2 were invoked before the login (call 3) and are still in flight
\* after it: call 1 carries the old credential, call 2 (addNewTorrent) the new one
C11_Witness ==
  /\ invoked["login"] = 1
  /\ calls[3].pc = "done"
  /\ calls[1].pc = "fetch" /\ calls[1].op # "login"
  /\ calls[2].pc = "fetch" /\ calls[2].op = "addNewTorrent"
  /\ calls[1].req.cookie = Some(CookieSIDx)
  /\ calls[2].req.cookie = Some(CookieSIDabc)
  /\ authCookie = Some(CookieSIDabc)

\* the URL a request went to, its query left off
HrefNoQuery(req) ==
  IF req.search = <<>> THEN req.href
  ELSE SubSeq(req.href, 1, Len(req.href) - Len(req.search) - 1)

NoDoubleSlash(path) == \A k \in 1..(Len(path) - 1) : ~(path[k] = "/" /\ path[k + 1] = "/")

EndsWith(s, p) == Len(s) >= Len(p) /\ SubSeq(s, Len(s) - Len(p) + 1, Len(s)) = p

\* C12: whatever the root the handle was constructed with, with or without a slash
\* at its end, a dispatched request goes to the handle's base URL followed by one
\* "/", the namespace, one "/" and the action, and its path has no "//".
C12_PathIsBaseNamespaceAction ==
  built.sent =>
    /\ HrefNoQuery(built.req) =
         StripTrailingSlash(url) \o <<"/">> \o built.req.apiName \o <<"/">>
           \o built.req.methodName
    /\ EndsWith(HrefNoQuery(built.req), built.req.path)
    /\ Head(built.req.path) = "/"
    /\ NoDoubleSlash(built.req.path)

\* a root with a slash at its end, and a request with a query
C12_Witness ==
  /\ built.sent
  /\ root = Some(<<"h", "t", "t", "p", ":", "/", "/", "l", "o", "c", "a", "l", "h", "o", "s", "t", ":", "8", "0", "8", "0", "/">>)
  /\ built.op = "getTorrentList"
  /\ built.req.search # <<>>
  /\ built.req.path = <<"/", "a", "p", "i", "/", "v", "2", "/", "t", "o", "r", "r", "e", "n", "t", "s", "/", "i", "n", "f", "o">>

\* the root the constructor works on: its argument, or the default
GivenRoot == IF root = Undefined THEN DefaultRoot ELSE root[1]

\* C13: the handle's base URL is the configured root (a slash at its end dropped)
\* followed by /api/v2/, also when the root has a path of its own.
C13_BaseIsRootWithPrefix ==
  url = StripTrailingSlash(GivenRoot) \o <<"/", "a", "p", "i", "/", "v", "2", "/">>

\* the pieces of s between the occurrences of the character c
RECURSIVE SplitOn(_, _)
SplitOn(s, c) ==
  LET k == IndexOf(s, c, 1)
  IN IF k = 0 THEN <<s>>
     ELSE <<SubSeq(s, 1, k - 1)>> \o SplitOn(SubSeq(s, k + 1, Len(s)), c)

\* the character a percent escape of the model's alphabet stands for
Unescaped(hex) ==
  CASE hex = <<"2", "0">> -> " "
    [] hex = <<"2", "6">> -> "&"
    [] hex = <<"2", "C">> -> ","
    [] hex = <<"2", "F">> -> "/"
    [] hex = <<"3", "A">> -> ":"
    [] hex = <<"3", "D">> -> "="
    [] hex = <<"7", "C">> -> "|"
    [] OTHER -> "?"

\* what a server reads out of a percent-encoded name or value
RECURSIVE PercentDecode(_)
PercentDecode(s) ==
  IF s = <<>> THEN <<>>
  ELSE IF Head(s) = "%" /\ Len(s) >= 3
       THEN <<Unescaped(SubSeq(s, 2, 3))>> \o PercentDecode(SubSeq(s, 4, Len(s)))
  ELSE <<Head(s)>> \o PercentDecode(Tail(s))

\* the name/value pairs a server reads out of a query string
QueryPairs(search) ==
  IF search = <<>> THEN <<>>
  ELSE LET pieces == SplitOn(search, "&")
       IN [k \in DOMAIN pieces |->
             LET eq == IndexOf(pieces[k], "=", 1)
             IN IF eq = 0 THEN [key |-> PercentDecode(pieces[k]), value |-> <<>>]
                ELSE [key |-> PercentDecode(SubSeq(pieces[k], 1, eq - 1)),
                      value |-> PercentDecode(SubSeq(pieces[k], eq + 1, Len(pieces[k])))]]

\* the values a query string gives for one key, in their order
ValuesOf(search, key) ==
  LET ps == SelectSeq(QueryPairs(search), LAMBDA p : p.key = key)
  IN [k \in DOMAIN ps |-> ps[k].value]

\* C14: for every array-valued field of the query object, the query string of the
\* dispatched request has the key once per element, with the elements as values in
\* their order; the elements are never put together under one key.
C14_ArrayFieldRepeatsKey ==
  (built.sent /\ built.args.query.t = "object") =>
    \A m \in DOMAIN built.args.query.obj :
      LET member == built.args.query.obj[m]
      IN member.value.t = "array" =>
           ValuesOf(built.req.search, member.key) =
             [k \in DOMAIN member.value.arr |-> member.value.arr[k].str]

\* getTorrentList({ filter: ['paused', 'a,b'] }) goes out as filter=paused&filter=a%2Cb
C14_Witness ==
  /\ built.sent
  /\ built.op = "getTorrentList"
  /\ built.args.query.t = "object"
  /\ built.args.query.obj[1].value = JSArray(<<JSString(<<"p", "a", "u", "s", "e", "d">>), JSString(<<"a", ",", "b">>)>>)
  /\ built.req.search = <<"f", "i", "l", "t", "e", "r", "=", "p", "a", "u", "s", "e", "d", "&", "f", "i", "l", "t", "e", "r", "=", "a", "%", "2", "C", "b">>
  /\ built.req.method = "GET"

\* C15: a handle constructed with http://localhost:8080/ that calls
\* getApplicationVersion (namespace app, action version) sends a GET, the verb
\* used when none is given, to http://localhost:8080/api/v2/app/version, with no
\* query string and no body.
C15_VersionScenario ==
  (built.sent /\ root = Some(<<"h", "t", "t", "p", ":", "/", "/", "l", "o", "c", "a", "l", "h", "o", "s", "t", ":", "8", "0", "8", "0", "/">>)
     /\ built.op = "getApplicationVersion") =>
    /\ built.req.method = "GET"
    /\ built.req.href = <<"h", "t", "t", "p", ":", "/", "/", "l", "o", "c", "a", "l", "h", "o", "s", "t", ":", "8", "0", "8", "0", "/", "a", "p", "i", "/", "v", "2", "/", "a", "p", "p", "/", "v", "e", "r", "s", "i", "o", "n">>
    /\ built.req.search = <<>>
    /\ \A k \in DOMAIN built.req.href : built.req.href[k] # "?"
    /\ built.req.body = Undefined

C15_Witness ==
  /\ built.sent
  /\ root = Some(<<"h", "t", "t", "p", ":", "/", "/", "l", "o", "c", "a", "l", "h", "o", "s", "t", ":", "8", "0", "8", "0", "/">>)
  /\ built.op = "getApplicationVersion"
  /\ built.req.apiName = <<"a", "p", "p">>
  /\ built.req.methodName = <<"v", "e", "r", "s", "i", "o", "n">>

\* the name of the form field an operation puts its hashes in
HashFieldName(op) == IF op \in {"renameFile", "renameFolder"} THEN "hash" ELSE "hashes"

\* the fields of a form that have the given name
FieldsNamed(form, name) == SelectSeq(form, LAMBDA f : f.name = name)

\* C16: an operation that takes a hash list or 'all' and is given 'all' sends one
\* hashes field whose value is the three characters all.
C16_SentinelPassesVerbatim ==
  (built.sent /\ built.args.hashes = All) =>
    /\ built.req.body # Undefined
    /\ FieldsNamed(built.req.body[1], HashFieldName(built.op)) =
         <<Field(HashFieldName(built.op), <<"a", "l", "l">>)>>

\* deleteTorrents('all', true)
C16_Witness ==
  /\ built.sent
  /\ built.op = "deleteTorrents"
  /\ built.args.hashes = All
  /\ built.args.flag
  /\ built.req.body = Some(<<Field("hashes", <<"a", "l", "l">>), Field("deleteFiles", <<"t", "r", "u", "e">>)>>)

\* the strings of an array of strings
Strings(array) == [k \in DOMAIN array.arr |-> array.arr[k].str]

\* C17: an operation given a list of hashes sends one hashes field; split at every
\* "|" its value gives back the hashes in their order (an empty list gives the empty
\* value), so there is no separator before the first or after the last, and
\* ['h1', 'h2'] gives h1|h2.
C17_HashesPipeJoined ==
  (built.sent /\ built.args.hashes.t = "array") =>
    /\ built.req.body # Undefined
    /\ LET fields == FieldsNamed(built.req.body[1], HashFieldName(built.op))
           hashes == Strings(built.args.hashes)
       IN /\ Len(fields) = 1
          /\ hashes = <<>> => fields[1].value = <<>>
          /\ hashes # <<>> => SplitOn(fields[1].value, "|") = hashes
          /\ hashes = <<Hash1, Hash2>> => fields[1].value = <<"h", "1", "|", "h", "2">>

\* pauseTorrents(['h1', 'h2'])
C17_Witness ==
  /\ built.sent
  /\ built.op = "pauseTorrents"
  /\ built.args.hashes = JSArray(<<JSString(Hash1), JSString(Hash2)>>)
  /\ built.req.body = Some(<<Field("hashes", <<"h", "1", "|", "h", "2">>)>>)
  /\ built.req.method = "POST"

\* value is the strings of list in their order with the character sep between them
JoinedBy(value, list, sep) ==
  IF list = <<>> THEN value = <<>> ELSE SplitOn(value, sep) = list

\* C18: addTorrentTags, createTags and deleteTags send one tags field whose value is
\* the tags in order with a comma between them and no pipe (['movies', '2024'] gives
\* movies,2024); the hashes field of addTorrentTags is joined with a pipe all the same.
C18_TagsCommaJoined ==
  (built.sent /\ built.op \in {"addTorrentTags", "createTags", "deleteTags"}) =>
    LET form == built.req.body[1]
        tags == FieldsNamed(form, "tags")
    IN /\ Len(tags) = 1
       /\ JoinedBy(tags[1].value, Strings(built.args.list), ",")
       /\ \A k \in DOMAIN tags[1].value : tags[1].value[k] # "|"
       /\ Strings(built.args.list) = <<<<"m", "o", "v", "i", "e", "s">>, <<"2", "0", "2", "4">>>> =>
            tags[1].value = <<"m", "o", "v", "i", "e", "s", ",", "2", "0", "2", "4">>
       /\ (built.op = "addTorrentTags" /\ built.args.hashes.t = "array") =>
            /\ Len(FieldsNamed(form, "hashes")) = 1
            /\ JoinedBy(FieldsNamed(form, "hashes")[1].value, Strings(built.args.hashes), "|")

\* addTorrentTags(['h1', 'h2'], ['movies', '2024'])
C18_Witness ==
  /\ built.sent
  /\ built.op = "addTorrentTags"
  /\ built.req.body = Some(<<Field("hashes", <<"h", "1", "|", "h", "2">>), Field("tags", <<"m", "o", "v", "i", "e", "s", ",", "2", "0", "2", "4">>)>>)

\* C19 as the separator table has it: removeTorrentTags sends its tags joined with
\* a pipe, for every tag list.
C19_RemovedTagsPipeJoined ==
  (built.sent /\ built.op = "removeTorrentTags" /\ built.args.list.t = "array") =>
    /\ Len(FieldsNamed(built.req.body[1], "tags")) = 1
    /\ JoinedBy(FieldsNamed(built.req.body[1], "tags")[1].value,
                Strings(built.args.list), "|")

\* C19: removeTorrentTags sends its tag list as one tags field joined with a comma,
\* as addTorrentTags does, and sends no tags field when no list is given.
C19_RemovedTagsCommaJoined ==
  (built.sent /\ built.op = "removeTorrentTags") =>
    LET tags == FieldsNamed(built.req.body[1], "tags")
    IN /\ built.args.list.t = "array" =>
            /\ Len(tags) = 1
            /\ JoinedBy(tags[1].value, Strings(built.args.list), ",")
            /\ \A k \in DOMAIN tags[1].value : tags[1].value[k] # "|"
       /\ built.args.list.t # "array" => tags = <<>>

\* removeTorrentTags(['h1', 'h2'], ['movies', '2024'])
C19_Witness ==
  /\ built.sent
  /\ built.op = "removeTorrentTags"
  /\ built.args.list = JSArray(<<JSString(<<"m", "o", "v", "i", "e", "s">>), JSString(<<"2", "0", "2", "4">>)>>)
  /\ built.req.body = Some(<<Field("hashes", <<"h", "1", "|", "h", "2">>), Field("tags", <<"m", "o", "v", "i", "e", "s", ",", "2", "0", "2", "4">>)>>)

\* C20: addTrackersToTorrent and removeTrackers send one urls field whose value is
\* the tracker URLs in order with a newline between them; no pipe and no comma is
\* put between them.
C20_TrackerUrlsNewlineJoined ==
  (built.sent /\ built.op \in {"addTrackersToTorrent", "removeTrackers"}) =>
    LET form == built.req.body[1]
        urls == FieldsNamed(form, "urls")
    IN /\ Len(urls) = 1
       /\ JoinedBy(urls[1].value, Strings(built.args.list), "\n")
       /\ \A k \in DOMAIN urls[1].value : urls[1].value[k] \notin {"|", ","}
       /\ FieldsNamed(form, "hash") = <<Field("hash", built.args.text)>>

\* addTrackersToTorrent('h1', ['http://t1/a', 'udp://t2:6969'])
C20_Witness ==
  /\ built.sent
  /\ built.op = "addTrackersToTorrent"
  /\ built.req.body =
       Some(<<Field("hash", Hash1), Field("urls", <<"h", "t", "t", "p", ":", "/", "/", "t", "1", "/", "a", "\n", "u", "d", "p", ":", "/", "/", "t", "2", ":", "6", "9", "6", "9">>)>>)

\* C23: a step changes the credential only when it is the assignment of a login that
\* got its response; no step of a logout, of another call or of a failing call
\* changes it, and no step changes the base URL.
C23_OnlyLoginChangesCredential ==
  [][/\ authCookie' # authCookie =>
          \E i \in CallIds : /\ calls[i].op = "login"
                             /\ calls[i].pc = "returned"
                             /\ calls'[i].pc = "done"
     /\ url' = url]_vars

\* a call other than login has just failed while a credential is held
C23_Witness ==
  /\ Settles(last) /\ last.op # "login"
  /\ last.out.kind \in {"RequestError", "TransportError"}
  /\ last.held = Some(CookieSIDabc)
  /\ authCookie = Some(CookieSIDabc)
  /\ url = constructor(Undefined)

\* C25: a login that fails, refused by the server or cut short by the transport,
\* leaves the credential as it was when the login was called: a held one is kept,
\* an unset one stays unset.
C25_FailedLoginKeepsCredential ==
  [][(Settles(last') /\ last'.op = "login" /\ last'.out.kind # "value") =>
       /\ last'.out.kind \in {"RequestError", "TransportError"}
       /\ authCookie' = authCookie
       /\ authCookie' = last'.held]_vars

\* a login refused with a response that carries another SID cookie, while a
\* credential is held
C25_Witness ==
  /\ Settles(last) /\ last.op = "login"
  /\ last.out.kind = "RequestError"
  /\ last.held = Some(CookieSIDabc)
  /\ SIDPositions(last.setCookie) # {}
  /\ last.setCookie[First(SIDPositions(last.setCookie))] # CookieSIDabc
  /\ authCookie = Some(CookieSIDabc)

\* C26: after a login that returns normally the credential is a set-cookie value
\* named SID of that login's response, or unset when the response has none, whatever
\* was held before; and a request sent while the credential is unset carries no
\* Cookie header.
C26_LoginReplacesOrUnsets ==
  [][/\ (Settles(last') /\ last'.op = "login" /\ last'.out.kind = "value") =>
          /\ authCookie' \in {Undefined} \cup
                             {Some(last'.setCookie[k]) : k \in SIDPositions(last'.setCookie)}
          /\ SIDPositions(last'.setCookie) = {} => authCookie' = Undefined
          /\ SIDPositions(last'.setCookie) # {} => authCookie' # Undefined
     /\ \A i \in CallIds :
          (authCookie = Undefined /\ calls[i].pc = "idle" /\ calls'[i].pc = "fetch") =>
            calls'[i].req.cookie = Undefined]_vars

\* a login sent with the held credential got a 2xx response with cookies but no SID
C26_Witness ==
  /\ Settles(last) /\ last.op = "login" /\ last.out.kind = "value"
  /\ last.held = Some(CookieSIDabc)
  /\ last.setCookie # <<>>
  /\ SIDPositions(last.setCookie) = {}
  /\ authCookie = Undefined

\* the Cookie header callMethod makes of a credential
CookieHeaderOf(credential) ==
  IF credential # Undefined /\ NonBlank(credential[1]) THEN credential ELSE Undefined

\* C27: a request gets its Cookie header from the credential held in the step that
\* sends it; while the request is in flight no step changes it, a completing login
\* included; and the completion of a call other than login leaves the credential as
\* it is.
C27_CookieFixedAtDispatch ==
  [][/\ \A i \in CallIds :
          (calls[i].pc \in {"idle", "stream"} /\ calls'[i].pc = "fetch") =>
            calls'[i].req.cookie = CookieHeaderOf(authCookie)
     /\ \A i \in CallIds :
          (calls[i].pc \in {"fetch", "text", "returned"}
             /\ calls'[i].pc \in {"fetch", "text", "returned"}) =>
            calls'[i].req = calls[i].req
     /\ (Settles(last') /\ last'.op # "login") => authCookie' = authCookie]_vars

\* a request sent without a cookie is still in flight after a login has stored one
C27_Witness ==
  \E i \in CallIds :
    /\ calls[i].pc \in {"fetch", "text"}
    /\ calls[i].op = "getApplicationVersion"
    /\ calls[i].req.cookie = Undefined
    /\ authCookie = Some(CookieSIDabc)
    /\ Settles(last) /\ last.op = "login"

\* the credential a login derives from the set-cookie values of its response
DerivedCredential(setCookie) ==
  IF SIDPositions(setCookie) = {} THEN Undefined
  ELSE Some(setCookie[First(SIDPositions(setCookie))])

\* C28: when a login's response is processed, the credential becomes the one derived
\* from that response, whatever another login has stored in the meantime and
\* whichever of the logins was issued first; so after two overlapping logins the
\* credential is the one of the response processed last, and of that one alone.
C28_LastProcessedLoginWins ==
  [][\A i \in CallIds :
       (calls[i].op = "login" /\ calls[i].pc = "returned" /\ calls'[i].pc = "done") =>
         /\ authCookie' = DerivedCredential(calls[i].setCookie)
         /\ \A j \in CallIds \ {i} : calls'[j] = calls[j]]_vars

\* two logins were issued one after the other and overlapped; the response of the
\* second was processed first and stored its cookie, the response of the first,
\* with another cookie, is about to be processed
C28_Witness ==
  /\ invoked = [m \in DOMAIN invoked |-> IF m = "login" THEN 2 ELSE 0]
  /\ calls[2].pc = "done"
  /\ authCookie = Some(CookieSIDx)
  /\ calls[1].op = "login" /\ calls[1].pc = "returned"
  /\ calls[1].held = Undefined
  /\ calls[1].setCookie = <<CookieSIDabc>>
  /\ ENABLED LoginResume(1)

\* C24: setTorrentShareLimit sends each limit it is given under its own name, as a
\* decimal string: ratioLimit carries options.ratioLimit, seedingTimeLimit carries
\* options.seedingTimeLimit.
C24_ShareLimitsUnderOwnNames ==
  (built.sent /\ built.op = "setTorrentShareLimit") =>
    LET form == built.req.body[1]
    IN /\ FieldsNamed(form, "ratioLimit") =
            (IF built.args.ratioLimit = Undefined THEN <<>>
             ELSE <<Field("ratioLimit", NumStr(built.args.ratioLimit[1]))>>)
       /\ FieldsNamed(form, "seedingTimeLimit") =
            (IF built.args.seedingTimeLimit = Undefined THEN <<>>
             ELSE <<Field("seedingTimeLimit", NumStr(built.args.seedingTimeLimit[1]))>>)

\* Array.prototype.includes
Includes(list, v) == \E k \in DOMAIN list : list[k] = v

\* the elements of torrents that are link strings, and the others, each in the order
\* given
LinkElements == SelectSeq(add.torrents, LAMBDA e : e.kind = "string" /\ IsLink(e.str))

FileElements == SelectSeq(add.torrents, LAMBDA e : ~(e.kind = "string" /\ IsLink(e.str)))

\* C21: the body addNewTorrent sends uses each element of torrents once: the link
\* strings (http://, https://, magnet:, bc://bt/) are, in order, the lines of the one
\* 'urls' field and make no part; each other element (path, Blob, Buffer, Stream)
\* makes one binary part named 'torrents' carrying its bytes, in the order given,
\* and is no line of 'urls'.
C21_ElementsPartitioned ==
  add.pc = "sent" =>
    LET urls == FieldsNamed(add.body, "urls")
        parts == FieldsNamed(add.body, "torrents")
    IN /\ Len(urls) = 1
       /\ urls[1].value.t = "string"
       /\ JoinedBy(urls[1].value.str, [k \in DOMAIN LinkElements |-> LinkElements[k].str], "\n")
       /\ Len(parts) = Len(FileElements)
       /\ \A k \in DOMAIN parts :
            /\ parts[k].value.t = "blob"
            /\ parts[k].value.data = FileElements[k].data
       /\ \A k \in DOMAIN FileElements :
            FileElements[k].kind = "string" =>
              ~Includes(SplitOn(urls[1].value.str, "\n"), FileElements[k].str)

\* a request was sent for a stream followed by a link: the stream was drained into a
\* part, the link is the one line of 'urls'
C21_Witness ==
  /\ add.pc = "sent"
  /\ calls[1].pc = "fetch"
  /\ Len(add.torrents) = 2
  /\ add.torrents[1].kind = "stream"
  /\ Len(LinkElements) = 1
  /\ Len(FieldsNamed(add.body, "torrents")) = 1

\* the entries of the options addNewTorrent was given
OptionEntries == IF add.options.t = "object" THEN add.options.obj ELSE <<>>

\* C22: the body addNewTorrent sends carries, besides 'urls' and 'torrents', one
\* field for each option the caller gave a value, holding that value, and no field
\* for an option that is absent or has no value.
C22_OneFieldPerSuppliedOption ==
  add.pc = "sent" =>
    /\ \A k \in DOMAIN OptionEntries :
         FieldsNamed(add.body, OptionEntries[k].key) =
           (IF OptionEntries[k].value.t = "undefined" THEN <<>>
            ELSE <<Field(OptionEntries[k].key, JSString(FormString(OptionEntries[k].value)))>>)
    /\ \A k \in DOMAIN add.body :
         \/ add.body[k].name \in {"urls", "torrents"}
         \/ \E j \in DOMAIN OptionEntries :
              /\ OptionEntries[j].key = add.body[k].name
              /\ OptionEntries[j].value.t # "undefined"

\* C29: with a network that answers or fails every request, and streams that end,
\* fail or close, every invocation of addNewTorrent eventually completes: its
\* request was dispatched and settled, or it failed with an error.
C29_AddNewTorrentCompletes == <>(calls[1].pc = "done")

\* a local path among the elements cannot be read
UnreadablePath(e) == e.kind = "string" /\ ~IsLink(e.str) /\ ~e.ok

\* C30: addNewTorrent reads its local files before it calls the network: when a path
\* among its elements cannot be read no request is ever issued, whatever was
\* gathered before, and the invocation that fails on the read fails with the error
\* of the read and leaves the credential as it was.
C30_FailedReadSendsNothing ==
  [][/\ (\E k \in DOMAIN add.torrents : UnreadablePath(add.torrents[k])) =>
          /\ net' = [m \in DOMAIN net |-> 0]
          /\ add'.pc # "sent"
     /\ (add.pc # "failed" /\ add'.pc = "failed") =>
          /\ UnreadablePath(add.torrents[add'.k])
          /\ Settles(last')
          /\ last'.out.kind = "FileError"
          /\ last'.nreq = 0
          /\ authCookie' = authCookie]_vars

\* the read of the second element failed after the first, a stream, had been drained
\* into a part; a credential is held
C30_Witness ==
  /\ add.pc = "failed"
  /\ add.k = 2
  /\ add.torrents[1].kind = "stream"
  /\ Len(FieldsNamed(add.body, "torrents")) = 1
  /\ last.out.kind = "FileError"
  /\ authCookie = Some(CookieSIDabc)
  /\ net = [m \in DOMAIN net |-> 0]

====
